---- MODULE Spec2Model ----
(***************************************************************************)
(* Reconciliation matching engine of EVS_COTEJ_V3: the two record tables   *)
(* (fisico, contabil), the ledger (depara), the lock table (conciliados),  *)
(* the automatic rules of matcher_v2_extended.py, the commit and undo of   *)
(* manual_db_v2_fixed.py and the staging buffer of manual_v2_FINAL.py.     *)
(*                                                                         *)
(* Conventions.  An integer column that holds SQL NULL / Python None is    *)
(* NULL.  Text columns are strings, "" when empty (the importer writes ""  *)
(* for a blank cell).  Tables without a declared order are read in         *)
(* ascending ID (fisico, contabil) or ascending PAR_ID (depara) order.     *)
(* The storage engine is SQLite, the one connect() falls back to and whose *)
(* dialect manual_db_v2_fixed.py is written in.                            *)
(***************************************************************************)
EXTENDS Integers, Sequences, FiniteSets, TLC

VARIABLES
    fisico,         \* ID -> [NRBRM, BEM_ANTERIOR, SERIE, TAG]
    contabil,       \* ID -> [NRBRM, INC, BEM_ANTERIOR, SERIE, TAG]
    fragF,          \* IDs of fisico whose FRAG is 'Conciliado'
    fragC,          \* IDs of contabil whose FRAG is 'Conciliado'
    depara,         \* the ledger: set of rows, PAR_ID is the primary key
    conciliados,    \* the lock table: set of [BASE, ID, PAR_ID]
    df_fis,         \* ManualV2Window.df_fis: the IDs shown in the physical grid
    df_ctb,         \* ManualV2Window.df_ctb: ID -> NRBRM of the accounting grid
    pending_pairs,  \* ManualV2Window.pending_pairs: the staging buffer
    batch_seq,      \* ManualV2Window._batch_seq
    n_undo,         \* undo_pairs calls since the last import (bounds the exploration)
    raised,         \* the last database call ended in an exception
    rule_pairs      \* <<pairs>> while an automatic rule has read and not yet written, else <<>>

dbvars  == <<fisico, contabil, fragF, fragC, depara, conciliados>>
winvars == <<df_fis, df_ctb, pending_pairs, batch_seq>>
vars    == <<fisico, contabil, fragF, fragC, depara, conciliados,
             df_fis, df_ctb, pending_pairs, batch_seq, n_undo, raised,
             rule_pairs>>

-----------------------------------------------------------------------------
(* Bounds of the model *)

MaxParId   == 4     \* no ledger row is written with a PAR_ID above this
MaxPairs   == 2     \* longest pair list handed to save_manual_pairs
MaxKeys    == 1     \* longest list handed to undo_pairs and to the import commits
MaxUndos   == 2     \* undo_pairs calls followed after one import
MaxBatches == 2     \* staging interactions per window

NULL == -1

FisIds == {1, 2}
CtbIds == {1, 2, 3}

\* A row of fisico / contabil as import_to_db stores it
FisRow(nrbrm, bem, serie, tag) ==
    [NRBRM |-> nrbrm, BEM_ANTERIOR |-> bem, SERIE |-> serie, TAG |-> tag]
CtbRow(nrbrm, inc, bem, serie, tag) ==
    [NRBRM |-> nrbrm, INC |-> inc, BEM_ANTERIOR |-> bem, SERIE |-> serie, TAG |-> tag]

\* The workbooks an import may load.  1: one family and a second asset;
\* 2: two parents and one child under one group key; 3: pairs that only the
\* cross-field rules find; 4: pairs that only the serial and tag rules find;
\* 5: the family of 1 with a single physical record, so that physical id 2
\* names no record; 6: a physical record that the group-key rule and the
\* first cross-field rule would give to different accounting records; 7: two
\* physical records and two parents under one group key and a parent under
\* another, the physical sheet listing ID 2 before ID 1; 8: serials that
\* differ in letter case, tags that differ in an inner blank, and a child
\* that carries the physical tag exactly; 9: descriptions that share
\* signatures; 10: serials, models and tags contained in descriptions (the
\* columns DESCRICAO and MODELO of 9 and 10 are in TextCols).
Workbooks ==
    <<[fisico   |-> <<FisRow(100, "", "", ""), FisRow(200, "", "", "")>>,
       contabil |-> <<CtbRow(100, 0, "", "", ""), CtbRow(100, 5, "", "", ""),
                      CtbRow(200, 0, "", "", "")>>],
      [fisico   |-> <<FisRow(100, "", "", ""), FisRow(100, "", "", "")>>,
       contabil |-> <<CtbRow(100, 0, "", "", ""), CtbRow(100, 0, "", "", ""),
                      CtbRow(100, 5, "", "", "")>>],
      [fisico   |-> <<FisRow(NULL, "100", "", ""), FisRow(200, "", "", "")>>,
       contabil |-> <<CtbRow(100, 0, "", "", ""), CtbRow(100, 5, "", "", ""),
                      CtbRow(NULL, NULL, "200", "", "")>>],
      [fisico   |-> <<FisRow(200, "", "SN1", ""), FisRow(NULL, "", "", "TG1")>>,
       contabil |-> <<CtbRow(100, 0, "", "SN1", ""), CtbRow(100, 5, "", "", ""),
                      CtbRow(NULL, NULL, "", "", "TG1")>>],
      [fisico   |-> <<FisRow(100, "", "", "")>>,
       contabil |-> <<CtbRow(100, 0, "", "", ""), CtbRow(100, 5, "", "", ""),
                      CtbRow(200, 0, "", "", "")>>],
      [fisico   |-> <<FisRow(100, "200", "", ""), FisRow(NULL, "", "", "TG1")>>,
       contabil |-> <<CtbRow(100, 0, "", "", ""), CtbRow(100, 5, "", "", ""),
                      CtbRow(200, 0, "", "", "TG1")>>],
      [fisico   |-> <<FisRow(100, "", "", ""), FisRow(100, "", "", "")>>,
       contabil |-> <<CtbRow(100, 0, "", "", ""), CtbRow(100, 0, "", "", ""),
                      CtbRow(200, 0, "", "", "")>>],
      [fisico   |-> <<FisRow(NULL, "", "sn1", ""), FisRow(NULL, "", "", "TG 1")>>,
       contabil |-> <<CtbRow(NULL, 0, "", "SN1", ""), CtbRow(NULL, 0, "", "", "TG1"),
                      CtbRow(NULL, 5, "", "", "TG 1")>>],
      [fisico   |-> <<FisRow(NULL, "", "", ""), FisRow(NULL, "", "", "")>>,
       contabil |-> <<CtbRow(NULL, 0, "", "", ""), CtbRow(NULL, 0, "", "", ""),
                      CtbRow(NULL, 0, "", "", "")>>],
      [fisico   |-> <<FisRow(NULL, "", "sn1234", ""), FisRow(NULL, "", "SN1", "TG9999")>>,
       contabil |-> <<CtbRow(NULL, 0, "", "", ""), CtbRow(NULL, 0, "", "SN5678", ""),
                      CtbRow(NULL, 5, "", "", "")>>]>>

\* The columns DESCRICAO and MODELO of each sheet
TextCols(d) ==
    CASE d = 9 ->
           [fisico   |-> [DESCRICAO |-> <<"MESA CADEIRA ARMARIO", "CADEIRA PRETA GIRATORIA">>,
                          MODELO    |-> <<"", "">>],
            contabil |-> [DESCRICAO |-> <<"CADEIRA ARMARIO", "MESA CADEIRA",
                                          "CADEIRA GIRATORIA PRETA">>,
                          MODELO    |-> <<"", "", "">>]]
      [] d = 10 ->
           [fisico   |-> [DESCRICAO |-> <<"TV", "NOTEBOOK SN5678">>,
                          MODELO    |-> <<"M500", "M500">>],
            contabil |-> [DESCRICAO |-> <<"TV LG SN1234 TG9999", "TV SN1234 M500",
                                          "TV SN1234 TG9999">>,
                          MODELO    |-> <<"M500", "M500", "">>]]
      [] OTHER ->
           [fisico   |-> [DESCRICAO |-> <<"", "">>, MODELO |-> <<"", "">>],
            contabil |-> [DESCRICAO |-> <<"", "", "">>, MODELO |-> <<"", "", "">>]]

\* str.upper() on the text values the workbooks hold
Upper(s) ==
    CASE s = "sn1234" -> "SN1234"
      [] s = "sn1"    -> "SN1"
      [] OTHER        -> s

\* row_id (AUTOINCREMENT) of each record: the position of its row in the sheet
RowIds(d) ==
    IF d = 7 THEN [fisico |-> <<2, 1>>, contabil |-> <<1, 2, 3>>]
             ELSE [fisico |-> <<1, 2>>, contabil |-> <<1, 2, 3>>]

\* The tables after the bulk insert of workbook d, indexed by the column ID
DataSets ==
    [d \in DOMAIN Workbooks |->
        [fisico   |-> [i \in DOMAIN Workbooks[d].fisico |->
                          LET r == Workbooks[d].fisico[i]
                              t == TextCols(d).fisico
                          IN  [row_id |-> RowIds(d).fisico[i], NRBRM |-> r.NRBRM,
                               BEM_ANTERIOR |-> r.BEM_ANTERIOR, SERIE |-> r.SERIE,
                               TAG |-> r.TAG, DESCRICAO |-> t.DESCRICAO[i],
                               MODELO |-> t.MODELO[i],
                               DESC_NORM |-> Upper(t.DESCRICAO[i]),
                               MODELO_NORM |-> Upper(t.MODELO[i]),
                               SERIE_NORM |-> Upper(r.SERIE),
                               TAG_NORM |-> Upper(r.TAG)]],
         contabil |-> [i \in DOMAIN Workbooks[d].contabil |->
                          LET r == Workbooks[d].contabil[i]
                              t == TextCols(d).contabil
                          IN  [row_id |-> RowIds(d).contabil[i], NRBRM |-> r.NRBRM,
                               INC |-> r.INC, BEM_ANTERIOR |-> r.BEM_ANTERIOR,
                               SERIE |-> r.SERIE, TAG |-> r.TAG,
                               DESCRICAO |-> t.DESCRICAO[i], MODELO |-> t.MODELO[i],
                               DESC_NORM |-> Upper(t.DESCRICAO[i]),
                               MODELO_NORM |-> Upper(t.MODELO[i]),
                               SERIE_NORM |-> Upper(r.SERIE),
                               TAG_NORM |-> Upper(r.TAG)]]]]

-----------------------------------------------------------------------------
(* Generic helpers *)

Coalesce(x, d) == IF x = NULL THEN d ELSE x

Max(S) == CHOOSE x \in S : \A y \in S : y <= x
Min(S) == CHOOSE x \in S : \A y \in S : x <= y

RECURSIVE SortedSeq(_)
SortedSeq(S) == IF S = {} THEN <<>> ELSE <<Min(S)>> \o SortedSeq(S \ {Min(S)})

Range(s) == {s[i] : i \in 1..Len(s)}

\* The sequences that list every element of S once
PermsOf(S) ==
    LET n == Cardinality(S)
        RECURSIVE build(_)
        build(k) == IF k = 0 THEN {<<>>}
                    ELSE {Append(t, x) : t \in build(k - 1), x \in S}
    IN  {t \in build(n) : Range(t) = S}

RECURSIVE SeqsUpTo(_, _)
SeqsUpTo(S, n) ==
    IF n = 0 THEN {<<>>}
    ELSE LET shorter == SeqsUpTo(S, n - 1)
         IN  shorter \cup {Append(s, x) : s \in {t \in shorter : Len(t) = n - 1}, x \in S}

-----------------------------------------------------------------------------
(* The database as a value, so that operations compose.                    *)
(*   dp: depara, cc: conciliados, ff / fc: FRAG = 'Conciliado' marks       *)

CurDB == [dp |-> depara, cc |-> conciliados, ff |-> fragF, fc |-> fragC]

LockedIn(cc, base, id) == \E c \in cc : c.BASE = base /\ c.ID = id

\* text -> number, pd.to_numeric(errors="coerce"): NaN for anything not numeric
ToNumeric(s) ==
    CASE s = "100" -> 100
      [] s = "200" -> 200
      [] OTHER     -> NULL

\* str.strip() on the text values the model enumerates
Strip(s) ==
    CASE s = " SN1 " -> "SN1"
      [] s = " TG1 " -> "TG1"
      [] OTHER       -> s

-----------------------------------------------------------------------------
(* matcher_v2_extended.py *)

\* A variant of _read_pending that drops the filter on conciliados and FRAG
read_pending_with_locked(db, base) ==
    IF base = "FIS" THEN DOMAIN fisico ELSE DOMAIN contabil

\* _read_pending: the ids with no lock row and no FRAG mark
read_pending(db, base) ==
    IF base = "FIS"
    THEN {i \in DOMAIN fisico   : ~LockedIn(db.cc, "FIS", i) /\ i \notin db.ff}
    ELSE {i \in DOMAIN contabil : ~LockedIn(db.cc, "CTB", i) /\ i \notin db.fc}

\* The ids of S in the order of their rows in the table (row_id)
RECURSIVE InRowOrder(_, _)
InRowOrder(S, table) ==
    IF S = {} THEN <<>>
    ELSE LET m == CHOOSE x \in S : \A y \in S : table[x].row_id <= table[y].row_id
         IN  <<m>> \o InRowOrder(S \ {m}, table)

\* rank(method="first") of ID inside the group of rows that share the key
RankInGroup(S, key, i) == Cardinality({j \in S : key[j] = key[i] /\ j < i}) + 1

\* A variant of _pair_1to1_by_value that pairs every record of a group with
\* the first accounting record of the group
pair_by_value_first_of_group(F, C, keyF, keyC, left_key) ==
    LET match(f) == {c \in C : keyC[c] = keyF[f] /\ RankInGroup(C, keyC, c) = 1}
        order    == InRowOrder({f \in F : match(f) # {}}, fisico)
    IN  [k \in 1..Len(order) |->
            [ID_FISICO    |-> order[k],
             ID_CONTABIL  |-> CHOOSE c \in match(order[k]) : TRUE,
             NRBRM        |-> IF left_key = "NRBRM" THEN keyF[order[k]] ELSE 0,
             INC_CONTABIL |-> 0]]

\* The merge on (key, rank), in the order of the left (physical) frame.  The
\* output column NRBRM is the merged key only when that column is called NRBRM.
pair_1to1_by_value(F, C, keyF, keyC, left_key) ==
    LET match(f) == {c \in C : keyC[c] = keyF[f]
                               /\ RankInGroup(C, keyC, c) = RankInGroup(F, keyF, f)}
        paired   == {f \in F : match(f) # {}}
        order    == InRowOrder(paired, fisico)
    IN  [k \in 1..Len(order) |->
            [ID_FISICO    |-> order[k],
             ID_CONTABIL  |-> CHOOSE c \in match(order[k]) : TRUE,
             NRBRM        |-> IF left_key = "NRBRM" THEN keyF[order[k]] ELSE 0,
             INC_CONTABIL |-> 0]]

next_par_id(dp) == IF dp = {} THEN 1 ELSE Max({r.PAR_ID : r \in dp}) + 1

bulk_insert_pairs(db, pairs, st) ==
    IF pairs = <<>> THEN db
    ELSE
    LET start == next_par_id(db.dp)
        par(i) == start + i - 1
        idx    == 1..Len(pairs)
    IN  [dp |-> db.dp \cup {[PAR_ID       |-> par(i),
                             ST           |-> st,
                             ID_FISICO    |-> pairs[i].ID_FISICO,
                             ID_CONTABIL  |-> pairs[i].ID_CONTABIL,
                             NRBRM        |-> pairs[i].NRBRM,
                             INC_CONTABIL |-> pairs[i].INC_CONTABIL] : i \in idx},
         cc |-> db.cc
                \cup {[BASE |-> "FIS", ID |-> pairs[i].ID_FISICO, PAR_ID |-> par(i)]
                        : i \in {k \in idx : pairs[k].ID_FISICO > 0}}
                \cup {[BASE |-> "CTB", ID |-> pairs[i].ID_CONTABIL, PAR_ID |-> par(i)]
                        : i \in idx},
         ff |-> db.ff \cup {pairs[i].ID_FISICO : i \in {k \in idx : pairs[k].ID_FISICO > 0}},
         fc |-> db.fc \cup {pairs[i].ID_CONTABIL : i \in idx}]

\* the accounting parents a key rule may pair: INC (NULL read as 0) = 0
ParentsOf(C) == {c \in C : Coalesce(contabil[c].INC, 0) = 0}

pairs_regra_nrbrm_pai(db) ==
    LET keyF == [i \in DOMAIN fisico   |-> fisico[i].NRBRM]
        keyC == [i \in DOMAIN contabil |-> contabil[i].NRBRM]
        F == {i \in read_pending(db, "FIS") : keyF[i] # NULL}
        C == ParentsOf({i \in read_pending(db, "CTB") : keyC[i] # NULL})
    IN  pair_1to1_by_value(F, C, keyF, keyC, "NRBRM")

pairs_regra_bem_ant_fis_eq_nrbrm_ctb(db) ==
    LET keyF == [i \in DOMAIN fisico   |-> ToNumeric(fisico[i].BEM_ANTERIOR)]
        keyC == [i \in DOMAIN contabil |-> contabil[i].NRBRM]
        F == {i \in read_pending(db, "FIS") : keyF[i] # NULL}
        C == ParentsOf({i \in read_pending(db, "CTB") : keyC[i] # NULL})
    IN  pair_1to1_by_value(F, C, keyF, keyC, "KEY")

pairs_regra_nrbrm_fis_eq_bem_ant_ctb(db) ==
    LET keyF == [i \in DOMAIN fisico   |-> fisico[i].NRBRM]
        keyC == [i \in DOMAIN contabil |-> ToNumeric(contabil[i].BEM_ANTERIOR)]
        F == {i \in read_pending(db, "FIS") : keyF[i] # NULL}
        C == ParentsOf({i \in read_pending(db, "CTB") : keyC[i] # NULL})
    IN  pair_1to1_by_value(F, C, keyF, keyC, "KEY")

pairs_regra_exata(db, key) ==
    LET keyF == [i \in DOMAIN fisico   |-> Strip(fisico[i][key])]
        keyC == [i \in DOMAIN contabil |-> Strip(contabil[i][key])]
        F == {i \in read_pending(db, "FIS") : keyF[i] # ""}
        C == ParentsOf({i \in read_pending(db, "CTB") : keyC[i] # ""})
    IN  pair_1to1_by_value(F, C, keyF, keyC, key)

run_regra_nrbrm_pai(db) ==
    bulk_insert_pairs(db, pairs_regra_nrbrm_pai(db), "NRBEM_FIS=NRBEM_CTB")
run_regra_bem_ant_fis_eq_nrbrm_ctb(db) ==
    bulk_insert_pairs(db, pairs_regra_bem_ant_fis_eq_nrbrm_ctb(db), "BEMANT_FIS=NRBEM_CTB")
run_regra_nrbrm_fis_eq_bem_ant_ctb(db) ==
    bulk_insert_pairs(db, pairs_regra_nrbrm_fis_eq_bem_ant_ctb(db), "NRBRM_FIS=NRBEM_CTB")
run_regra_exata(db, key, st) ==
    bulk_insert_pairs(db, pairs_regra_exata(db, key), st)

RECURSIVE FlattenSeq(_)
FlattenSeq(ss) == IF ss = <<>> THEN <<>> ELSE Head(ss) \o FlattenSeq(Tail(ss))

\* A variant of the propagation join that takes no child
pairs_propagacao_sem_filhos(db) == <<>>

\* df_filhos.merge(df_pais, on="NRBRM"): every pending child row joined with every
\* ledger row of INC_CONTABIL 0 (NULL read as 0) that carries the same NRBRM
pairs_propagacao_incorporados(db) ==
    LET pais    == {r \in db.dp : Coalesce(r.INC_CONTABIL, 0) = 0}
        filhos  == {c \in read_pending(db, "CTB") :
                        /\ Coalesce(contabil[c].INC, 0) # 0
                        /\ contabil[c].NRBRM # NULL}
        forChild(c) ==
            LET ps == SortedSeq({r.PAR_ID : r \in {q \in pais : q.NRBRM = contabil[c].NRBRM}})
                row(p) == CHOOSE r \in pais : r.PAR_ID = p
            IN  [k \in 1..Len(ps) |->
                    [ID_FISICO    |-> row(ps[k]).ID_FISICO,
                     ID_CONTABIL  |-> c,
                     NRBRM        |-> contabil[c].NRBRM,
                     INC_CONTABIL |-> contabil[c].INC]]
        cs == SortedSeq(filhos)
    IN  FlattenSeq([k \in 1..Len(cs) |-> forChild(cs[k])])

run_propagacao_incorporados(db) ==
    bulk_insert_pairs(db, pairs_propagacao_incorporados(db), "CA - INC")

\* A variant of the pass that runs the first cross-field rule before the
\* group-key rule
run_automatico_01_cross_first(db) ==
    LET d1 == run_regra_bem_ant_fis_eq_nrbrm_ctb(db)
        d2 == run_regra_nrbrm_pai(d1)
        d3 == run_regra_nrbrm_fis_eq_bem_ant_ctb(d2)
        d4 == run_regra_exata(d3, "SERIE", "SERIE_FIS_SERIE_CTB")
        d5 == run_regra_exata(d4, "TAG", "TAG_FIS_TAG_CTB")
    IN  run_propagacao_incorporados(d5)

\* run_auto_v2.py
run_automatico_01(db) ==
    LET d1 == run_regra_nrbrm_pai(db)
        d2 == run_regra_bem_ant_fis_eq_nrbrm_ctb(d1)
        d3 == run_regra_nrbrm_fis_eq_bem_ant_ctb(d2)
        d4 == run_regra_exata(d3, "SERIE", "SERIE_FIS_SERIE_CTB")
        d5 == run_regra_exata(d4, "TAG", "TAG_FIS_TAG_CTB")
    IN  run_propagacao_incorporados(d5)

-----------------------------------------------------------------------------
(* manual_db_v2_fixed.py *)

PendingCounts(db) ==
    [fis |-> Cardinality({i \in DOMAIN fisico   : ~LockedIn(db.cc, "FIS", i)}),
     ctb |-> Cardinality({i \in DOMAIN contabil : ~LockedIn(db.cc, "CTB", i)})]

get_counts == PendingCounts(CurDB)

\* A variant of find_children_ctb_ids whose INC test is inverted: it returns the
\* other parents of the group key
find_children_inc_inverted(db, nrbrm, exclude_ctb_id) ==
    SortedSeq({c \in DOMAIN contabil :
                  /\ contabil[c].NRBRM = nrbrm
                  /\ Coalesce(contabil[c].INC, 0) = 0
                  /\ c # exclude_ctb_id
                  /\ ~LockedIn(db.cc, "CTB", c)})

\* Pending (unlocked) children of a group key, ORDER BY ID
find_children_ctb_ids(db, nrbrm, exclude_ctb_id) ==
    SortedSeq({c \in DOMAIN contabil :
                  /\ contabil[c].NRBRM = nrbrm
                  /\ Coalesce(contabil[c].INC, 0) # 0
                  /\ c # exclude_ctb_id
                  /\ ~LockedIn(db.cc, "CTB", c)})

\* A variant of _child_status_for_origin that always takes the fallback
child_status_same_as_origin(origin) == origin

child_status_for_origin(origin) ==
    CASE origin = "MANUAL"        -> "CM - INC"
      [] origin = "DIRETA"        -> "CD - INC"
      [] origin = "NÃO CHAPEÁVEL" -> "CN - INC"
      [] origin = "NAO CHAPEAVEL" -> "CN - INC"
      [] OTHER                    -> origin

\* One iteration of the main loop of save_pairs_with_family.  acc carries
\* depara_rows (without PAR_ID, which is its position), pending_ctb_ids and
\* involved.  The lock reads see the tables as they were before the call.
save_main_step(db, acc, pair, st) ==
    LET fis_id == pair[1]
        ctb_id == pair[2]
        nrbrm  == IF ctb_id > 0 THEN Coalesce(contabil[ctb_id].NRBRM, 0)
                                ELSE Coalesce(fisico[fis_id].NRBRM, 0)
        inc    == IF ctb_id > 0 THEN Coalesce(contabil[ctb_id].INC, 0) ELSE NULL
    IN  IF \/ (fis_id <= 0 /\ ctb_id <= 0)
           \/ (fis_id > 0 /\ LockedIn(db.cc, "FIS", fis_id))
           \/ (ctb_id > 0 /\ (ctb_id \in acc.pending_ctb_ids \/ LockedIn(db.cc, "CTB", ctb_id)))
           \/ (ctb_id > 0 /\ ctb_id \notin DOMAIN contabil)
           \/ (ctb_id <= 0 /\ fis_id \notin DOMAIN fisico)
        THEN acc
        ELSE [depara_rows |->
                Append(acc.depara_rows,
                       [ST           |-> IF ctb_id > 0 /\ Coalesce(inc, 0) # 0
                                         THEN child_status_for_origin(st) ELSE st,
                        ID_FISICO    |-> fis_id,
                        ID_CONTABIL  |-> ctb_id,
                        NRBRM        |-> nrbrm,
                        INC_CONTABIL |-> inc]),
              pending_ctb_ids |-> IF ctb_id > 0 THEN acc.pending_ctb_ids \cup {ctb_id}
                                                ELSE acc.pending_ctb_ids,
              involved |-> IF ctb_id > 0 THEN Append(acc.involved, <<nrbrm, fis_id>>)
                                         ELSE acc.involved]

RECURSIVE save_main_loop(_, _, _, _)
save_main_loop(db, acc, pairs, st) ==
    IF pairs = <<>> THEN acc
    ELSE save_main_loop(db, save_main_step(db, acc, Head(pairs), st), Tail(pairs), st)

\* SELECT ID FROM contabil WHERE COALESCE(NRBRM,0)=? ORDER BY COALESCE(INC,0), ID
RECURSIVE FamSeq(_)
FamSeq(S) ==
    IF S = {} THEN <<>>
    ELSE LET inc(c) == Coalesce(contabil[c].INC, 0)
             m == CHOOSE x \in S : \A y \in S :
                      inc(x) < inc(y) \/ (inc(x) = inc(y) /\ x <= y)
         IN  <<m>> \o FamSeq(S \ {m})

fam_of(nrbrm) == FamSeq({c \in DOMAIN contabil : Coalesce(contabil[c].NRBRM, 0) = nrbrm})

\* The inner loop of the propagation: the members of one family, in order
RECURSIVE save_fam_loop(_, _, _, _, _, _)
save_fam_loop(db, acc, fam, nrbrm, fis_anchor, st) ==
    IF fam = <<>> THEN acc
    ELSE
    LET ctb_id  == Head(fam)
        inc_val == Coalesce(contabil[ctb_id].INC, 0)
        acc2 == IF ctb_id \in acc.pending_ctb_ids \/ LockedIn(db.cc, "CTB", ctb_id)
                THEN acc
                ELSE [acc EXCEPT
                        !.depara_rows = Append(@,
                            [ST           |-> IF inc_val # 0 THEN child_status_for_origin(st)
                                                             ELSE st,
                             ID_FISICO    |-> fis_anchor,
                             ID_CONTABIL  |-> ctb_id,
                             NRBRM        |-> nrbrm,
                             INC_CONTABIL |-> inc_val]),
                        !.pending_ctb_ids = @ \cup {ctb_id}]
    IN  save_fam_loop(db, acc2, Tail(fam), nrbrm, fis_anchor, st)

\* The outer loop of the propagation: every (nrbrm, anchor) the main loop noted
RECURSIVE save_propagation(_, _, _, _)
save_propagation(db, acc, involved, st) ==
    IF involved = <<>> THEN acc
    ELSE
    LET nrbrm      == Head(involved)[1]
        fis_anchor == Head(involved)[2]
        acc2 == IF nrbrm <= 0 THEN acc
                ELSE save_fam_loop(db, acc, fam_of(nrbrm), nrbrm, fis_anchor, st)
    IN  save_propagation(db, acc2, Tail(involved), st)

\* The rows a commit writes, in PAR_ID order
save_rows(db, pairs, st) ==
    LET acc0 == [depara_rows |-> <<>>, pending_ctb_ids |-> {}, involved |-> <<>>]
        acc1 == save_main_loop(db, acc0, pairs, st)
    IN  save_propagation(db, acc1, acc1.involved, st).depara_rows

save_pairs_with_family(db, pairs, st) ==
    LET rows  == save_rows(db, pairs, st)
        start == next_par_id(db.dp)
        par(i) == start + i - 1
        idx   == 1..Len(rows)
    IN  [db EXCEPT
           !.dp = @ \cup {[PAR_ID       |-> par(i),
                           ST           |-> rows[i].ST,
                           ID_FISICO    |-> rows[i].ID_FISICO,
                           ID_CONTABIL  |-> rows[i].ID_CONTABIL,
                           NRBRM        |-> rows[i].NRBRM,
                           INC_CONTABIL |-> rows[i].INC_CONTABIL] : i \in idx},
           !.cc = @ \cup {[BASE |-> "FIS", ID |-> rows[i].ID_FISICO, PAR_ID |-> par(i)]
                             : i \in {k \in idx : rows[k].ID_FISICO > 0}}
                    \cup {[BASE |-> "CTB", ID |-> rows[i].ID_CONTABIL, PAR_ID |-> par(i)]
                             : i \in {k \in idx : rows[k].ID_CONTABIL > 0}}]

\* A variant of the loop of save_pairs that gives up the rest of the list at the
\* first pair it skips
RECURSIVE save_pairs_rows_abort(_, _, _)
save_pairs_rows_abort(db, pairs, st) ==
    IF pairs = <<>> THEN <<>>
    ELSE
    LET fis_id == Head(pairs)[1]
        ctb_id == Head(pairs)[2]
        skip == \/ (fis_id <= 0 /\ ctb_id <= 0)
                \/ (fis_id > 0 /\ LockedIn(db.cc, "FIS", fis_id))
                \/ (ctb_id > 0 /\ LockedIn(db.cc, "CTB", ctb_id))
                \/ (ctb_id > 0 /\ ctb_id \notin DOMAIN contabil)
                \/ (ctb_id <= 0 /\ fis_id \notin DOMAIN fisico)
        row == [ST           |-> st,
                ID_FISICO    |-> fis_id,
                ID_CONTABIL  |-> ctb_id,
                NRBRM        |-> IF ctb_id > 0 THEN Coalesce(contabil[ctb_id].NRBRM, 0)
                                 ELSE Coalesce(fisico[fis_id].NRBRM, 0),
                INC_CONTABIL |-> IF ctb_id > 0 THEN Coalesce(contabil[ctb_id].INC, 0)
                                 ELSE NULL]
    IN  IF skip THEN <<>> ELSE <<row>> \o save_pairs_rows_abort(db, Tail(pairs), st)

\* save_pairs: the commit without the family propagation.  Its lock reads see
\* the tables as they were before the call; pending_fis_ids and pending_ctb_ids
\* are filled and never read.
RECURSIVE save_pairs_rows(_, _, _)
save_pairs_rows(db, pairs, st) ==
    IF pairs = <<>> THEN <<>>
    ELSE
    LET fis_id == Head(pairs)[1]
        ctb_id == Head(pairs)[2]
        skip == \/ (fis_id <= 0 /\ ctb_id <= 0)
                \/ (fis_id > 0 /\ LockedIn(db.cc, "FIS", fis_id))
                \/ (ctb_id > 0 /\ LockedIn(db.cc, "CTB", ctb_id))
                \/ (ctb_id > 0 /\ ctb_id \notin DOMAIN contabil)
                \/ (ctb_id <= 0 /\ fis_id \notin DOMAIN fisico)
        row == [ST           |-> st,
                ID_FISICO    |-> fis_id,
                ID_CONTABIL  |-> ctb_id,
                NRBRM        |-> IF ctb_id > 0 THEN Coalesce(contabil[ctb_id].NRBRM, 0)
                                 ELSE Coalesce(fisico[fis_id].NRBRM, 0),
                INC_CONTABIL |-> IF ctb_id > 0 THEN Coalesce(contabil[ctb_id].INC, 0)
                                 ELSE NULL]
    IN  (IF skip THEN <<>> ELSE <<row>>) \o save_pairs_rows(db, Tail(pairs), st)

\* The database after the rows were inserted from PAR_ID MAX+1 on, with one
\* lock row per non-zero side
insert_rows(db, rows) ==
    LET start == next_par_id(db.dp)
        par(i) == start + i - 1
        idx   == 1..Len(rows)
    IN  [db EXCEPT
           !.dp = @ \cup {[PAR_ID       |-> par(i),
                           ST           |-> rows[i].ST,
                           ID_FISICO    |-> rows[i].ID_FISICO,
                           ID_CONTABIL  |-> rows[i].ID_CONTABIL,
                           NRBRM        |-> rows[i].NRBRM,
                           INC_CONTABIL |-> rows[i].INC_CONTABIL] : i \in idx},
           !.cc = @ \cup {[BASE |-> "FIS", ID |-> rows[i].ID_FISICO, PAR_ID |-> par(i)]
                             : i \in {k \in idx : rows[k].ID_FISICO > 0}}
                    \cup {[BASE |-> "CTB", ID |-> rows[i].ID_CONTABIL, PAR_ID |-> par(i)]
                             : i \in {k \in idx : rows[k].ID_CONTABIL > 0}}]

save_pairs(db, pairs, st) == insert_rows(db, save_pairs_rows(db, pairs, st))

\* A variant of the direct commit that writes the tag of the one-sided commit
save_direct_pairs_tagged_nc(db, pairs) == save_pairs_with_family(db, pairs, "NÃO CHAPEÁVEL")

save_manual_pairs(db, pairs)        == save_pairs_with_family(db, pairs, "MANUAL")
save_direct_pairs(db, pairs)        == save_pairs_with_family(db, pairs, "DIRETA")
save_nao_chapeavel_pairs(db, pairs) == save_pairs_with_family(db, pairs, "NÃO CHAPEÁVEL")

\* A variant of undo_par_ids whose family rule for an exact key does not test
\* the anchor ID_FISICO
undo_par_ids_any_anchor(db, key) ==
    LET fis_id == key[1]
        ctb_id == key[2]
        is_parent == /\ ctb_id \in DOMAIN contabil
                     /\ Coalesce(contabil[ctb_id].NRBRM, 0) > 0
                     /\ Coalesce(contabil[ctb_id].INC, 0) = 0
        nrbrm == Coalesce(contabil[ctb_id].NRBRM, 0)
        family == IF is_parent
                  THEN {r.PAR_ID : r \in {q \in db.dp : Coalesce(q.NRBRM, 0) = nrbrm}}
                  ELSE {}
    IN  IF fis_id > 0 /\ ctb_id > 0
        THEN {r.PAR_ID : r \in {q \in db.dp : q.ID_FISICO = fis_id /\ q.ID_CONTABIL = ctb_id}}
             \cup family
        ELSE IF fis_id > 0
        THEN {r.PAR_ID : r \in {q \in db.dp : q.ID_FISICO = fis_id}}
        ELSE {r.PAR_ID : r \in {q \in db.dp : q.ID_CONTABIL = ctb_id}} \cup family

\* undo_pairs: the PAR_IDs one key resolves to
undo_par_ids(db, key) ==
    LET fis_id == key[1]
        ctb_id == key[2]
        is_parent == /\ ctb_id \in DOMAIN contabil
                     /\ Coalesce(contabil[ctb_id].NRBRM, 0) > 0
                     /\ Coalesce(contabil[ctb_id].INC, 0) = 0
        nrbrm == Coalesce(contabil[ctb_id].NRBRM, 0)
    IN  IF fis_id > 0 /\ ctb_id > 0
        THEN {r.PAR_ID : r \in {q \in db.dp : q.ID_FISICO = fis_id /\ q.ID_CONTABIL = ctb_id}}
             \cup (IF is_parent
                   THEN {r.PAR_ID : r \in {q \in db.dp : Coalesce(q.NRBRM, 0) = nrbrm
                                                         /\ q.ID_FISICO = fis_id}}
                   ELSE {})
        ELSE IF fis_id > 0
        THEN {r.PAR_ID : r \in {q \in db.dp : q.ID_FISICO = fis_id}}
        ELSE {r.PAR_ID : r \in {q \in db.dp : q.ID_CONTABIL = ctb_id}}
             \cup (IF is_parent
                   THEN {r.PAR_ID : r \in {q \in db.dp : Coalesce(q.NRBRM, 0) = nrbrm}}
                   ELSE {})

\* norm_pairs: the keys without (0, 0); duplicates vanish in the set
undo_norm_pairs(pairs) == {k \in Range(pairs) : ~(k[1] <= 0 /\ k[2] <= 0)}

undo_all_par_ids(db, pairs) == UNION {undo_par_ids(db, k) : k \in undo_norm_pairs(pairs)}

\* fis_ids / ctb_ids: the ids of the keys, then the ids of the resolved rows
undo_fis_ids(db, pairs) ==
    {k[1] : k \in {q \in undo_norm_pairs(pairs) : q[1] > 0}}
    \cup {r.ID_FISICO : r \in {q \in db.dp : q.PAR_ID \in undo_all_par_ids(db, pairs)
                                             /\ q.ID_FISICO > 0}}
undo_ctb_ids(db, pairs) ==
    {k[2] : k \in {q \in undo_norm_pairs(pairs) : q[2] > 0}}
    \cup {r.ID_CONTABIL : r \in {q \in db.dp : q.PAR_ID \in undo_all_par_ids(db, pairs)
                                               /\ q.ID_CONTABIL > 0}}

undo_pairs(db, pairs) ==
    LET par_ids == undo_all_par_ids(db, pairs)
        fis_ids == undo_fis_ids(db, pairs)
        ctb_ids == undo_ctb_ids(db, pairs)
    IN  [dp |-> {r \in db.dp : r.PAR_ID \notin par_ids},
         cc |-> {c \in db.cc : /\ c.PAR_ID \notin par_ids
                               /\ ~(c.BASE = "FIS" /\ c.ID \in fis_ids)
                               /\ ~(c.BASE = "CTB" /\ c.ID \in ctb_ids)},
         ff |-> db.ff \ fis_ids,
         fc |-> db.fc \ ctb_ids]

\* The dictionary undo_pairs returns; each entry is a cursor rowcount
undo_out(db, pairs) ==
    [removed_depara |-> Cardinality(db.dp \ undo_pairs(db, pairs).dp),
     removed_conc   |-> Cardinality(db.cc \ undo_pairs(db, pairs).cc),
     unmarked_fis   |-> Cardinality(undo_fis_ids(db, pairs) \cap DOMAIN fisico),
     unmarked_ctb   |-> Cardinality(undo_ctb_ids(db, pairs) \cap DOMAIN contabil)]

\* "remove duplicados, preserva ordem" of _execute_save
RECURSIVE pairs_unique(_, _)
pairs_unique(pairs, seen) ==
    IF pairs = <<>> THEN <<>>
    ELSE IF Head(pairs) \in seen THEN pairs_unique(Tail(pairs), seen)
    ELSE <<Head(pairs)>> \o pairs_unique(Tail(pairs), seen \cup {Head(pairs)})

\* The pairs ("fis_id", child id) _execute_save appends for the rows whose
\* accounting record is a parent with pending children (include_mode "all")
child_pairs(db, ok_pairs) ==
    FlattenSeq([i \in 1..Len(ok_pairs) |->
        LET fis_id == ok_pairs[i][1]
            ctb_id == ok_pairs[i][2]
        IN  IF /\ ctb_id > 0
               /\ ctb_id \in DOMAIN contabil
               /\ Coalesce(contabil[ctb_id].NRBRM, 0) # 0
               /\ Coalesce(contabil[ctb_id].INC, 0) = 0
            THEN LET child_ids == find_children_ctb_ids(db, contabil[ctb_id].NRBRM, ctb_id)
                 IN  [k \in 1..Len(child_ids) |-> <<fis_id, child_ids[k]>>]
            ELSE <<>>])

\* pairs_direta and pairs_nc of _execute_save
pairs_direta(pairs) == SelectSeq(pairs, LAMBDA p : p[1] > 0 /\ p[2] > 0)
pairs_nc(pairs) == SelectSeq(pairs, LAMBDA p : (p[1] > 0) # (p[2] > 0))

\* _execute_save over the rows of status OK: the two commits, in this order
execute_save(db, ok_pairs, include_all) ==
    LET pairs  == ok_pairs \o (IF include_all THEN child_pairs(db, ok_pairs) ELSE <<>>)
        uniq   == pairs_unique(pairs, {})
        direta == pairs_direta(uniq)
        nc     == pairs_nc(uniq)
        db1    == IF direta # <<>> THEN save_direct_pairs(db, direta) ELSE db
    IN  IF nc # <<>> THEN save_nao_chapeavel_pairs(db1, nc) ELSE db1

\* A variant of the except branch that leaves the writes of the failed call
rollback_keeps_writes(begin_db, cur_db) == cur_db

\* except Exception: cur.execute("ROLLBACK;"): the tables as they were at BEGIN
rollback(begin_db, cur_db) == begin_db

\* The single-row writes of the two executemany calls of save_pairs_with_family,
\* in order: the ledger rows, then per row the FIS and the CTB lock row
save_writes(db, pairs, st) ==
    LET rows  == save_rows(db, pairs, st)
        start == next_par_id(db.dp)
        dep(i) == [tbl |-> "depara",
                   row |-> [PAR_ID       |-> start + i - 1,
                            ST           |-> rows[i].ST,
                            ID_FISICO    |-> rows[i].ID_FISICO,
                            ID_CONTABIL  |-> rows[i].ID_CONTABIL,
                            NRBRM        |-> rows[i].NRBRM,
                            INC_CONTABIL |-> rows[i].INC_CONTABIL]]
        locks(i) ==
            (IF rows[i].ID_FISICO > 0
             THEN <<[tbl |-> "conciliados",
                     row |-> [BASE |-> "FIS", ID |-> rows[i].ID_FISICO,
                              PAR_ID |-> start + i - 1]]>>
             ELSE <<>>)
            \o (IF rows[i].ID_CONTABIL > 0
                THEN <<[tbl |-> "conciliados",
                        row |-> [BASE |-> "CTB", ID |-> rows[i].ID_CONTABIL,
                                 PAR_ID |-> start + i - 1]]>>
                ELSE <<>>)
    IN  [i \in 1..Len(rows) |-> dep(i)] \o FlattenSeq([i \in 1..Len(rows) |-> locks(i)])

\* The tables after the first n writes
apply_writes(db, ws, n) ==
    [db EXCEPT !.dp = @ \cup {ws[i].row : i \in {k \in 1..n : ws[k].tbl = "depara"}},
               !.cc = @ \cup {ws[i].row : i \in {k \in 1..n : ws[k].tbl = "conciliados"}}]

\* save_pairs_with_family when the storage fails at write number fault (at
\* COMMIT when fault is one past the last write); fault 0 is no failure
save_with_fault(db, pairs, st, fault) ==
    LET ws == save_writes(db, pairs, st)
    IN  IF fault = 0
        THEN [db |-> apply_writes(db, ws, Len(ws)), raised |-> FALSE]
        ELSE [db |-> rollback(db, apply_writes(db, ws, fault - 1)), raised |-> TRUE]

\* The tables after each statement of undo_pairs: DELETE FROM depara, the three
\* DELETE FROM conciliados, the two UPDATE ... SET FRAG=NULL
undo_steps(db, pairs) ==
    LET par_ids == undo_all_par_ids(db, pairs)
        fis_ids == undo_fis_ids(db, pairs)
        ctb_ids == undo_ctb_ids(db, pairs)
        d1 == [db EXCEPT !.dp = {r \in @ : r.PAR_ID \notin par_ids}]
        d2 == [d1 EXCEPT !.cc = {c \in @ : c.PAR_ID \notin par_ids}]
        d3 == [d2 EXCEPT !.cc = {c \in @ : ~(c.BASE = "FIS" /\ c.ID \in fis_ids)}]
        d4 == [d3 EXCEPT !.cc = {c \in @ : ~(c.BASE = "CTB" /\ c.ID \in ctb_ids)}]
        d5 == [d4 EXCEPT !.ff = @ \ fis_ids]
        d6 == [d5 EXCEPT !.fc = @ \ ctb_ids]
    IN  <<db, d1, d2, d3, d4, d5, d6>>

\* undo_pairs when the storage fails at statement number fault (7 is COMMIT)
undo_with_fault(db, pairs, fault) ==
    IF fault = 0
    THEN [db |-> undo_steps(db, pairs)[7], raised |-> FALSE]
    ELSE [db |-> rollback(db, undo_steps(db, pairs)[fault]), raised |-> TRUE]

\* load_pending_manual with no filter set: the unlocked records of one base,
\* for the accounting grid only those with INC (NULL read as 0) = 0
load_pending_manual(db, base, only_inc0) ==
    IF base = "FIS"
    THEN {i \in DOMAIN fisico : ~LockedIn(db.cc, "FIS", i)}
    ELSE {i \in DOMAIN contabil : /\ ~LockedIn(db.cc, "CTB", i)
                                   /\ (only_inc0 => Coalesce(contabil[i].INC, 0) = 0)}

\* _desc_attr_set on the descriptions the workbooks hold: the 3-character
\* prefixes of the alphabetic tokens of 3 characters or more
desc_attr_set(desc) ==
    CASE desc = "MESA CADEIRA ARMARIO"    -> {"MES", "CAD", "ARM"}
      [] desc = "CADEIRA PRETA GIRATORIA" -> {"CAD", "PRE", "GIR"}
      [] desc = "CADEIRA ARMARIO"         -> {"CAD", "ARM"}
      [] desc = "MESA CADEIRA"            -> {"MES", "CAD"}
      [] desc = "CADEIRA GIRATORIA PRETA" -> {"CAD", "GIR", "PRE"}
      [] desc = "NOTEBOOK SN5678"         -> {"NOT", "SN5"}
      [] desc = "TV LG SN1234 TG9999"     -> {"SN1", "TG9"}
      [] desc = "TV SN1234 M500"          -> {"SN1", "M50"}
      [] desc = "TV SN1234 TG9999"        -> {"SN1", "TG9"}
      [] OTHER                            -> {}

\* The descriptions in the order of ORDER BY COALESCE(DESCRICAO,'')
DescSorted ==
    <<"", "CADEIRA ARMARIO", "CADEIRA GIRATORIA PRETA", "CADEIRA PRETA GIRATORIA",
      "MESA CADEIRA", "MESA CADEIRA ARMARIO", "NOTEBOOK SN5678", "TV",
      "TV LG SN1234 TG9999", "TV SN1234 M500", "TV SN1234 TG9999">>

DescRank(desc) == CHOOSE k \in DOMAIN DescSorted : DescSorted[k] = desc

\* The ids of S in the order of ORDER BY COALESCE(DESCRICAO,''), ID
RECURSIVE OrderByDescId(_, _)
OrderByDescId(S, table) ==
    IF S = {} THEN <<>>
    ELSE LET before(x, y) ==
                 \/ DescRank(table[x].DESCRICAO) < DescRank(table[y].DESCRICAO)
                 \/ (table[x].DESCRICAO = table[y].DESCRICAO /\ x <= y)
             m == CHOOSE x \in S : \A y \in S : before(x, y)
         IN  <<m>> \o OrderByDescId(S \ {m}, table)

\* t LIKE '%' || x || '%'
Contains(t, x) ==
    \E i \in 1..(Len(t) - Len(x) + 1) : SubSeq(t, i, i + Len(x) - 1) = x

\* join_cond of the rules 1 to 5, on a physical row f and an accounting row t
join_cond(rid, f, t) ==
    CASE rid = 1 -> Len(f.SERIE_NORM) >= 4 /\ Contains(t.DESC_NORM, f.SERIE_NORM)
      [] rid = 2 -> Len(t.SERIE_NORM) >= 4 /\ Contains(f.DESC_NORM, t.SERIE_NORM)
      [] rid = 3 -> t.MODELO_NORM # "" /\ f.MODELO_NORM = t.MODELO_NORM
      [] rid = 4 -> Len(f.MODELO_NORM) >= 4 /\ Contains(t.DESC_NORM, f.MODELO_NORM)
      [] rid = 5 -> Len(f.TAG_NORM) >= 4 /\ Contains(t.DESC_NORM, f.TAG_NORM)

\* pend_fis / pend_ctb AND COALESCE(t.INC,0) = 0 (no filter set)
pend_fis(db) == {i \in DOMAIN fisico : ~LockedIn(db.cc, "FIS", i)}
pend_ctb_inc0(db) ==
    {i \in DOMAIN contabil : ~LockedIn(db.cc, "CTB", i) /\ Coalesce(contabil[i].INC, 0) = 0}

\* The number of signatures two descriptions share
shared_attrs(fid, cid) ==
    Cardinality(desc_attr_set(fisico[fid].DESCRICAO)
                    \cap desc_attr_set(contabil[cid].DESCRICAO))

\* load_candidates_auto02: the frames df_f and df_c, as sequences of ids
load_candidates_auto02(db, rid) ==
    IF rid = 6
    THEN LET hits(f) == {c \in pend_ctb_inc0(db) : shared_attrs(f, c) >= 2}
             fis_keep == {f \in pend_fis(db) : hits(f) # {}}
             ctb_keep == UNION {hits(f) : f \in pend_fis(db)}
         IN  [df_f |-> OrderByDescId(fis_keep, fisico),
              df_c |-> OrderByDescId(ctb_keep, contabil)]
    ELSE LET join == {<<f, c>> \in pend_fis(db) \X pend_ctb_inc0(db) :
                         join_cond(rid, fisico[f], contabil[c])}
         IN  [df_f |-> OrderByDescId({p[1] : p \in join}, fisico),
              df_c |-> OrderByDescId({p[2] : p \in join}, contabil)]

\* The keys of the dict counts in insertion order: for a in fattrs, in the
\* iteration order iter of the set, for cid in inv[a], the used ones skipped
RECURSIVE counts_keys(_, _, _, _)
counts_keys(iter, df_c, used, keys) ==
    IF iter = <<>> THEN keys
    ELSE LET inv_a == SelectSeq(df_c, LAMBDA c :
                         Head(iter) \in desc_attr_set(contabil[c].DESCRICAO))
             new   == SelectSeq(inv_a, LAMBDA c : c \notin used /\ c \notin Range(keys))
         IN  counts_keys(Tail(iter), df_c, used, keys \o new)

\* The best available match of one physical record: the first key of counts
\* with the highest score, if that score is 2 or more; else NULL
best_match(fid, iter, df_c, used) ==
    LET keys == counts_keys(iter, df_c, used, <<>>)
        top  == {k \in DOMAIN keys :
                    /\ shared_attrs(fid, keys[k]) >= 2
                    /\ \A j \in DOMAIN keys :
                          shared_attrs(fid, keys[j]) <= shared_attrs(fid, keys[k])}
    IN  IF top = {} THEN NULL ELSE keys[Min(top)]

\* The greedy loop of rule 6 over df_f; iters[fid] is the order in which the
\* set fattrs of fid is iterated
RECURSIVE pairs_similarity(_, _, _, _)
pairs_similarity(df_f, df_c, iters, used) ==
    IF df_f = <<>> THEN <<>>
    ELSE LET fid  == Head(df_f)
             best == best_match(fid, iters[fid], df_c, used)
         IN  IF best = NULL
             THEN pairs_similarity(Tail(df_f), df_c, iters, used)
             ELSE <<<<fid, best>>>>
                  \o pairs_similarity(Tail(df_f), df_c, iters, used \cup {best})

\* A variant of the greedy loop of the rules 1 to 5 that takes the first
\* candidate of each physical id whether used or not
RECURSIVE pairs_containment_reusing(_, _, _)
pairs_containment_reusing(fis_ids, cand, used) ==
    IF fis_ids = <<>> THEN <<>>
    ELSE LET fid  == Head(fis_ids)
             free == {p[2] : p \in {q \in cand : q[1] = fid}}
         IN  IF free = {}
             THEN pairs_containment_reusing(Tail(fis_ids), cand, used)
             ELSE <<<<fid, Min(free)>>>>
                  \o pairs_containment_reusing(Tail(fis_ids), cand, used)

\* The greedy loop of the rules 1 to 5 over cand (ORDER BY f.ID, t.ID): each
\* physical id takes its first accounting id not used yet
RECURSIVE pairs_containment(_, _, _)
pairs_containment(fis_ids, cand, used) ==
    IF fis_ids = <<>> THEN <<>>
    ELSE LET fid  == Head(fis_ids)
             free == {p[2] : p \in {q \in cand : q[1] = fid /\ q[2] \notin used}}
         IN  IF free = {}
             THEN pairs_containment(Tail(fis_ids), cand, used)
             ELSE <<<<fid, Min(free)>>>>
                  \o pairs_containment(Tail(fis_ids), cand, used \cup {Min(free)})

\* load_pairs_auto02 (limit_pairs and candidate_cap above the table sizes):
\* the list pairs
load_pairs_auto02(db, rid, iters) ==
    LET frames == load_candidates_auto02(db, rid)
    IN  IF frames.df_f = <<>> \/ frames.df_c = <<>> THEN <<>>
        ELSE IF rid = 6
        THEN pairs_similarity(frames.df_f, frames.df_c, iters, {})
        ELSE LET cand == {<<f, c>> \in pend_fis(db) \X pend_ctb_inc0(db) :
                             join_cond(rid, fisico[f], contabil[c])}
             IN  pairs_containment(SortedSeq({p[1] : p \in cand}), cand, {})

-----------------------------------------------------------------------------
(* manual_v2_FINAL.py, ManualV2Window in mode Manual *)

\* The accounting grid keeps the columns of each row as they were loaded
grid_ctb(db) ==
    [i \in load_pending_manual(db, "CTB", TRUE) |->
        [NRBRM |-> contabil[i].NRBRM, INC |-> contabil[i].INC]]

\* _fis_id_count / _ctb_id_count: how many staged entries name the id
fis_id_count(pp, id) == Cardinality({k \in 1..Len(pp) : pp[k].fis_id = id})
ctb_id_count(pp, id) == Cardinality({k \in 1..Len(pp) : pp[k].ctb_id = id})

\* The FILHO entries appended after the answer "yes": the children not staged yet
RECURSIVE stage_children(_, _, _, _)
stage_children(pp, child_ids, id_f, batch) ==
    IF child_ids = <<>> THEN pp
    ELSE LET cid == Head(child_ids)
             pp2 == IF ctb_id_count(pp, cid) > 0 THEN pp
                    ELSE Append(pp, [fis_id |-> id_f, ctb_id |-> cid,
                                     role |-> "FILHO", batch |-> batch])
         IN  stage_children(pp2, Tail(child_ids), id_f, batch)

\* The children _create_pair_rows asks about, for the grid row of id_c
prompt_children(db, grid, id_c) ==
    LET inc_val == Coalesce(grid[id_c].INC, 0)
        nrbrm   == Coalesce(grid[id_c].NRBRM, 0)
    IN  IF nrbrm # 0 /\ inc_val = 0 THEN find_children_ctb_ids(db, nrbrm, id_c)
        ELSE <<>>

\* The buffer _create_pair_rows leaves, for the answer given to askyesno
create_pair_rows(db, grid, pp, batch, id_f, id_c, answer) ==
    LET pai == Append(pp, [fis_id |-> id_f, ctb_id |-> id_c,
                           role |-> "PAI", batch |-> batch])
        child_ids == prompt_children(db, grid, id_c)
    IN  IF child_ids # <<>> /\ answer
        THEN stage_children(pai, child_ids, id_f, batch)
        ELSE pai

\* A variant of _create_pair_rows without the check of the accounting counter
create_pair_unchecked_ctb(db, grid, pp, seq, id_f, id_c, answer) ==
    IF fis_id_count(pp, id_f) > 0
    THEN [pending_pairs |-> pp, batch_seq |-> seq, created |-> FALSE, log |-> "fis"]
    ELSE [pending_pairs |-> create_pair_rows(db, grid, pp, seq + 1, id_f, id_c, answer),
          batch_seq |-> seq + 1, created |-> TRUE, log |-> "added"]

\* _create_pair_rows as a whole: the two refusals ("Físico ... já está em par
\* pendente", "Contábil ... já está em par pendente"), else a new batch
create_pair(db, grid, pp, seq, id_f, id_c, answer) ==
    IF fis_id_count(pp, id_f) > 0
    THEN [pending_pairs |-> pp, batch_seq |-> seq, created |-> FALSE, log |-> "fis"]
    ELSE IF ctb_id_count(pp, id_c) > 0
    THEN [pending_pairs |-> pp, batch_seq |-> seq, created |-> FALSE, log |-> "ctb"]
    ELSE [pending_pairs |-> create_pair_rows(db, grid, pp, seq + 1, id_f, id_c, answer),
          batch_seq |-> seq + 1, created |-> TRUE, log |-> "added"]

\* pairs_ids of _save_pairs
pairs_ids(pp) == [k \in 1..Len(pp) |-> <<pp[k].fis_id, pp[k].ctb_id>>]

\* The entries _undo_last_pending keeps: those not of the last batch
RECURSIVE SelectSeq2(_, _)
SelectSeq2(pp, keep) ==
    IF pp = <<>> THEN <<>>
    ELSE (IF Head(pp).batch \in keep THEN <<Head(pp)>> ELSE <<>>)
         \o SelectSeq2(Tail(pp), keep)

\* A variant of _save_pairs that clears the buffer whatever the commit did
save_pairs_window_clears_always(db, pp, fault) ==
    LET out == save_with_fault(db, pairs_ids(pp), "MANUAL", fault)
    IN  [db |-> out.db, raised |-> out.raised, pending_pairs |-> <<>>]

\* _save_pairs: save_manual_pairs inside try; on an exception showerror and
\* return, else _clear_pending (fault 0 is a commit that does not fail)
save_pairs_window(db, pp, fault) ==
    LET out == save_with_fault(db, pairs_ids(pp), "MANUAL", fault)
    IN  [db |-> out.db, raised |-> out.raised,
         pending_pairs |-> IF out.raised THEN pp ELSE <<>>]

\* A variant of _undo_last_pending that drops the last entry only
undo_last_entry_only(pp) == SubSeq(pp, 1, Len(pp) - 1)

undo_last_pending(pp) ==
    LET last_batch == Max({pp[k].batch : k \in 1..Len(pp)})
    IN  SelectSeq2(pp, {pp[k].batch : k \in 1..Len(pp)} \ {last_batch})

-----------------------------------------------------------------------------
(* importer_v2.py *)

\* DELETE FROM fisico, contabil, conciliados, depara, then the bulk insert
import_to_db(d) ==
    /\ fisico' = DataSets[d].fisico
    /\ contabil' = DataSets[d].contabil
    /\ depara' = {}
    /\ conciliados' = {}
    /\ fragF' = {}
    /\ fragC' = {}
    /\ n_undo' = 0
    /\ raised' = FALSE
    /\ UNCHANGED rule_pairs

-----------------------------------------------------------------------------
(* The operations as steps of the system *)

\* What the callers hand to a commit or to an undo: lists of (fis_id, ctb_id)
AnyPair     == (FisIds \cup {0}) \X (CtbIds \cup {0})
BothSided   == FisIds \X CtbIds
OneSided    == (FisIds \X {0}) \cup ({0} \X CtbIds)
ManualLists == SeqsUpTo(BothSided, MaxPairs) \ {<<>>}   \* ManualV2Window._save_pairs
DirectLists == SeqsUpTo(BothSided, MaxKeys) \ {<<>>}    \* pairs_direta of _execute_save
NcLists     == SeqsUpTo(OneSided, MaxKeys) \ {<<>>}     \* pairs_nc of _execute_save
UndoLists   == SeqsUpTo(AnyPair, MaxKeys) \ {<<>>}      \* valid_pairs of descotejar_import
OkLists     == SeqsUpTo(AnyPair \ {<<0, 0>>}, MaxPairs) \ {<<>>}  \* ok_rows of _execute_save
CommitLists == SeqsUpTo(AnyPair, MaxPairs) \ {<<>>}     \* any list a commit accepts

\* The workbooks each specification imports
LedgerSets == {1, 2}
AutoSets   == {1, 2, 3, 4, 6}
CommitSets == {1, 5}

\* Writes the database value db; no ledger row gets a PAR_ID above MaxParId
Store(db) ==
    /\ \A r \in db.dp : r.PAR_ID <= MaxParId
    /\ depara' = db.dp
    /\ conciliados' = db.cc
    /\ fragF' = db.ff
    /\ fragC' = db.fc
    /\ raised' = FALSE
    /\ UNCHANGED <<fisico, contabil, rule_pairs>>

Init ==
    /\ fisico = <<>>
    /\ contabil = <<>>
    /\ fragF = {}
    /\ fragC = {}
    /\ depara = {}
    /\ conciliados = {}
    /\ df_fis = {}
    /\ df_ctb = <<>>
    /\ pending_pairs = <<>>
    /\ batch_seq = 0
    /\ n_undo = 0
    /\ raised = FALSE
    /\ rule_pairs = <<>>

Import(sets) == \E d \in sets : import_to_db(d) /\ UNCHANGED winvars

RunRegraNrbrmPai == Store(run_regra_nrbrm_pai(CurDB)) /\ UNCHANGED <<winvars, n_undo>>
RunRegraBemAntFis == Store(run_regra_bem_ant_fis_eq_nrbrm_ctb(CurDB)) /\ UNCHANGED <<winvars, n_undo>>
RunRegraBemAntCtb == Store(run_regra_nrbrm_fis_eq_bem_ant_ctb(CurDB)) /\ UNCHANGED <<winvars, n_undo>>
RunRegraExataSerie ==
    Store(run_regra_exata(CurDB, "SERIE", "SERIE_FIS_SERIE_CTB")) /\ UNCHANGED <<winvars, n_undo>>
RunRegraExataTag ==
    Store(run_regra_exata(CurDB, "TAG", "TAG_FIS_TAG_CTB")) /\ UNCHANGED <<winvars, n_undo>>
RunPropagacaoIncorporados == Store(run_propagacao_incorporados(CurDB)) /\ UNCHANGED <<winvars, n_undo>>
RunAutomatico01 == Store(run_automatico_01(CurDB)) /\ UNCHANGED <<winvars, n_undo>>

SaveManualPairs ==
    \E pairs \in ManualLists :
        Store(save_manual_pairs(CurDB, pairs)) /\ UNCHANGED <<winvars, n_undo>>
SaveDirectPairs ==
    \E pairs \in DirectLists :
        Store(save_direct_pairs(CurDB, pairs)) /\ UNCHANGED <<winvars, n_undo>>
SaveNaoChapeavelPairs ==
    \E pairs \in NcLists :
        Store(save_nao_chapeavel_pairs(CurDB, pairs)) /\ UNCHANGED <<winvars, n_undo>>
\* The two commit functions on any list, under the tag MANUAL (the default
\* st_conciliacao of save_pairs)
SaveManualBatch ==
    \E pairs \in CommitLists :
        Store(save_manual_pairs(CurDB, pairs)) /\ UNCHANGED <<winvars, n_undo>>
SavePairsPlain ==
    \E pairs \in CommitLists :
        Store(save_pairs(CurDB, pairs, "MANUAL")) /\ UNCHANGED <<winvars, n_undo>>
UndoPairsOf(pairs) ==
    /\ n_undo < MaxUndos
    /\ n_undo' = n_undo + 1
    /\ Store(undo_pairs(CurDB, pairs))
    /\ UNCHANGED winvars
UndoPairs == \E pairs \in UndoLists : UndoPairsOf(pairs)

RaceSets == {1, 2}

\* _import_bases: the main window starts no task while another one runs
\* (_set_buttons_enabled(False) in _run_async)
ImportBases == rule_pairs = <<>> /\ Import(RaceSets)

\* run_regra_nrbrm_pai on the background thread, first half: the two
\* _read_pending calls and _pair_1to1_by_value
RuleReadPending ==
    /\ rule_pairs = <<>>
    /\ rule_pairs' = <<pairs_regra_nrbrm_pai(CurDB)>>
    /\ UNCHANGED <<dbvars, winvars, n_undo, raised>>

\* run_regra_nrbrm_pai, second half: _bulk_insert_pairs of the pairs read
RuleBulkInsert ==
    /\ rule_pairs # <<>>
    /\ LET db == bulk_insert_pairs(CurDB, rule_pairs[1], "NRBEM_FIS=NRBEM_CTB")
       IN  /\ \A r \in db.dp : r.PAR_ID <= MaxParId
           /\ depara' = db.dp
           /\ conciliados' = db.cc
           /\ fragF' = db.ff
           /\ fragC' = db.fc
    /\ rule_pairs' = <<>>
    /\ raised' = FALSE
    /\ UNCHANGED <<fisico, contabil, winvars, n_undo>>

\* The De-Para import window saves its validated rows
ExecuteSave ==
    \E ok_pairs \in OkLists, include_all \in BOOLEAN :
        Store(execute_save(CurDB, ok_pairs, include_all)) /\ UNCHANGED <<winvars, n_undo>>

\* Writes the outcome of a call that may have failed
StoreOutcome(out) ==
    /\ \A r \in out.db.dp : r.PAR_ID <= MaxParId
    /\ depara' = out.db.dp
    /\ conciliados' = out.db.cc
    /\ fragF' = out.db.ff
    /\ fragC' = out.db.fc
    /\ raised' = out.raised
    /\ UNCHANGED <<fisico, contabil, rule_pairs>>

\* A commit during which the storage fails
SaveDirectFails ==
    \E pairs \in DirectLists :
        \E fault \in 1..(Len(save_writes(CurDB, pairs, "DIRETA")) + 1) :
            /\ StoreOutcome(save_with_fault(CurDB, pairs, "DIRETA", fault))
            /\ UNCHANGED <<winvars, n_undo>>

\* An undo during which the storage fails
UndoFails ==
    \E pairs \in UndoLists, fault \in 1..7 :
        /\ undo_norm_pairs(pairs) # {}
        /\ StoreOutcome(undo_with_fault(CurDB, pairs, fault))
        /\ UNCHANGED <<winvars, n_undo>>

ApplyFilters ==
    /\ df_fis' = load_pending_manual(CurDB, "FIS", FALSE)
    /\ df_ctb' = grid_ctb(CurDB)
    /\ UNCHANGED <<dbvars, pending_pairs, batch_seq, n_undo, raised, rule_pairs>>

CreatePairRows ==
    \E id_f \in df_fis, id_c \in DOMAIN df_ctb, answer \in BOOLEAN :
        LET out == create_pair(CurDB, df_ctb, pending_pairs, batch_seq,
                               id_f, id_c, answer)
        IN  /\ out.batch_seq <= MaxBatches
            /\ batch_seq' = out.batch_seq
            /\ pending_pairs' = out.pending_pairs
            /\ UNCHANGED <<dbvars, df_fis, df_ctb, n_undo, raised, rule_pairs>>

UndoLastPending ==
    /\ pending_pairs # <<>>
    /\ pending_pairs' = undo_last_pending(pending_pairs)
    /\ UNCHANGED <<dbvars, df_fis, df_ctb, batch_seq, n_undo, raised, rule_pairs>>

RemoveSelectedPending ==
    \E idx \in 1..Len(pending_pairs) :
        /\ pending_pairs' = [k \in 1..(Len(pending_pairs) - 1) |->
                                IF k < idx THEN pending_pairs[k] ELSE pending_pairs[k + 1]]
        /\ UNCHANGED <<dbvars, df_fis, df_ctb, batch_seq, n_undo, raised, rule_pairs>>

ClearPending ==
    /\ pending_pairs # <<>>
    /\ pending_pairs' = <<>>
    /\ UNCHANGED <<dbvars, df_fis, df_ctb, batch_seq, n_undo, raised, rule_pairs>>

\* _stage_auto02_pairs: the buffer is cleared; the pairs found are staged as
\* one new batch of PAI entries, an id already staged being skipped
RECURSIVE stage_auto02_loop(_, _, _)
stage_auto02_loop(pp, pairs, batch) ==
    IF pairs = <<>> THEN pp
    ELSE LET fid == Head(pairs)[1]
             cid == Head(pairs)[2]
             pp2 == IF fis_id_count(pp, fid) > 0 \/ ctb_id_count(pp, cid) > 0 THEN pp
                    ELSE Append(pp, [fis_id |-> fid, ctb_id |-> cid,
                                     role |-> "PAI", batch |-> batch])
         IN  stage_auto02_loop(pp2, Tail(pairs), batch)

stage_auto02_pairs(pairs, seq) ==
    IF pairs = <<>> THEN [pending_pairs |-> <<>>, batch_seq |-> seq]
    ELSE [pending_pairs |-> stage_auto02_loop(<<>>, pairs, seq + 1),
          batch_seq |-> seq + 1]

\* The rules of the mode "Automático (02)"
Auto02Rules == 1..6

\* The orders in which Python may iterate the set fattrs of each physical
\* record (the order of a set of str depends on the hash seed of the process)
IterOrders ==
    LET perms(f) == PermsOf(desc_attr_set(fisico[f].DESCRICAO))
    IN  {o \in [DOMAIN fisico -> UNION {perms(f) : f \in DOMAIN fisico}] :
            \A f \in DOMAIN fisico : o[f] \in perms(f)}

\* _apply_filters in the mode "Automático (02)": load_pairs_auto02, the two
\* grids, then _stage_auto02_pairs
ApplyFiltersAuto02 ==
    \E rid \in Auto02Rules, iters \in IterOrders :
        LET pairs == load_pairs_auto02(CurDB, rid, iters)
            out   == stage_auto02_pairs(pairs, batch_seq)
            cids  == {pairs[k][2] : k \in DOMAIN pairs}
        IN  /\ out.batch_seq <= MaxBatches
            /\ df_fis' = {pairs[k][1] : k \in DOMAIN pairs}
            /\ df_ctb' = [c \in cids |-> [NRBRM |-> contabil[c].NRBRM,
                                          INC |-> contabil[c].INC]]
            /\ pending_pairs' = out.pending_pairs
            /\ batch_seq' = out.batch_seq
            /\ UNCHANGED <<dbvars, n_undo, raised, rule_pairs>>

\* _save_pairs: the commit, then _clear_pending and _apply_filters
SavePairs ==
    /\ pending_pairs # <<>>
    /\ LET db == save_manual_pairs(CurDB, pairs_ids(pending_pairs))
       IN  /\ Store(db)
           /\ df_fis' = load_pending_manual(db, "FIS", FALSE)
           /\ df_ctb' = grid_ctb(db)
    /\ pending_pairs' = <<>>
    /\ UNCHANGED <<batch_seq, n_undo>>

\* _save_pairs when the storage fails during the commit
SavePairsFails ==
    /\ pending_pairs # <<>>
    /\ \E fault \in 1..(Len(save_writes(CurDB, pairs_ids(pending_pairs), "MANUAL")) + 1) :
          LET out == save_pairs_window(CurDB, pending_pairs, fault)
          IN  /\ StoreOutcome(out)
              /\ pending_pairs' = out.pending_pairs
    /\ UNCHANGED <<df_fis, df_ctb, batch_seq, n_undo>>

\* The ledger under imports, the automatic pass, the three commits and undo
Next ==
    \/ Import(LedgerSets)
    \/ RunAutomatico01
    \/ SaveManualPairs
    \/ SaveDirectPairs
    \/ SaveNaoChapeavelPairs
    \/ UndoPairs

Spec == Init /\ [][Next]_vars

\* The automatic rules one by one, over every workbook
NextAuto ==
    \/ Import(AutoSets)
    \/ RunRegraNrbrmPai
    \/ RunRegraBemAntFis
    \/ RunRegraBemAntCtb
    \/ RunRegraExataSerie
    \/ RunRegraExataTag
    \/ RunPropagacaoIncorporados
    \/ RunAutomatico01
    \/ SaveNaoChapeavelPairs
    \/ UndoPairs

SpecAuto == Init /\ [][NextAuto]_vars

\* The manual window over the database
ManualSets == {1, 2}

NextManual ==
    \/ Import(ManualSets)
    \/ ApplyFilters
    \/ CreatePairRows
    \/ UndoLastPending
    \/ RemoveSelectedPending
    \/ ClearPending
    \/ SavePairs
    \/ SavePairsFails
    \/ UndoPairs

SpecManual == Init /\ [][NextManual]_vars

\* The commit functions on lists of any pairs
NextCommit ==
    \/ Import(CommitSets)
    \/ SaveManualBatch
    \/ SavePairsPlain

SpecCommit == Init /\ [][NextCommit]_vars

\* De-Para imports and manual commits
DeParaSets == {1}

NextDePara ==
    \/ Import(DeParaSets)
    \/ ExecuteSave
    \/ SaveManualPairs

SpecDePara == Init /\ [][NextDePara]_vars

\* An automatic rule on the background thread while the manual window commits
NextRace ==
    \/ ImportBases
    \/ RuleReadPending
    \/ RuleBulkInsert
    \/ SaveManualPairs

SpecRace == Init /\ [][NextRace]_vars

\* The key rules over workbooks with several records under one key
KeySets == {2, 4, 6, 7, 8}

NextKey ==
    \/ Import(KeySets)
    \/ RunRegraNrbrmPai
    \/ RunRegraExataSerie
    \/ RunRegraExataTag
    \/ SaveManualPairs

SpecKey == Init /\ [][NextKey]_vars

\* The assisted rules of the manual window, manual commits in between
Auto02Sets == {2, 9, 10}

NextAuto02 ==
    \/ Import(Auto02Sets)
    \/ ApplyFiltersAuto02
    \/ SaveManualPairs
    \/ SavePairs

SpecAuto02 == Init /\ [][NextAuto02]_vars

\* Commit and undo over a storage that may fail
TxSets == {1}

NextTx ==
    \/ Import(TxSets)
    \/ SaveDirectPairs
    \/ SaveDirectFails
    \/ UndoPairs
    \/ UndoFails

SpecTx == Init /\ [][NextTx]_vars

-----------------------------------------------------------------------------
(* Properties *)

\* Two different ledger rows
Distinct(r1, r2) == r1.PAR_ID # r2.PAR_ID

\* C1, accounting half: no non-zero accounting id is the accounting side of
\* two different ledger rows, whatever imports, automatic passes, commits and
\* undos came before.
C1_AccountingIdOnce ==
    \A r1, r2 \in depara :
        (Distinct(r1, r2) /\ r1.ID_CONTABIL > 0) => r1.ID_CONTABIL # r2.ID_CONTABIL

\* C1, physical half: no non-zero physical id is the physical side of two
\* different ledger rows.
C1_PhysicalIdOnce ==
    \A r1, r2 \in depara :
        (Distinct(r1, r2) /\ r1.ID_FISICO > 0) => r1.ID_FISICO # r2.ID_FISICO

\* A key list that resolves to no ledger row
ResolvesNothing(pairs) == undo_all_par_ids(CurDB, pairs) = {}

\* C2, frame: an undo whose keys resolve to no ledger row leaves the ledger
\* and the lock table as they were.
C2_UnresolvedUndoKeepsLedgerAndLocks ==
    [][\A pairs \in UndoLists :
          (UndoPairsOf(pairs) /\ ResolvesNothing(pairs))
              => (depara' = depara /\ conciliados' = conciliados)]_vars

\* C2, counts: an undo whose keys resolve to no ledger row returns 0 in every
\* count.
C2_UnresolvedUndoReturnsZeros ==
    [][\A pairs \in UndoLists :
          (UndoPairsOf(pairs) /\ ResolvesNothing(pairs))
              => undo_out(CurDB, pairs) = [removed_depara |-> 0, removed_conc |-> 0,
                                           unmarked_fis |-> 0, unmarked_ctb |-> 0]]_vars

\* The ledger rows a step wrote
NewRows == depara' \ depara

\* C4: the unattended propagation never double-attaches: every child accounting
\* id it attached is the accounting side of exactly one ledger row afterwards,
\* and it writes no row for a child that was locked.
C4_PropagationAttachesOnce ==
    [][RunPropagacaoIncorporados =>
          \A r \in NewRows :
              /\ \A q \in depara' : q.ID_CONTABIL = r.ID_CONTABIL => q = r
              /\ ~LockedIn(conciliados, "CTB", r.ID_CONTABIL)]_vars

\* The tags of the five key rules of the automatic pass
AutoRuleTags ==
    {"NRBEM_FIS=NRBEM_CTB", "BEMANT_FIS=NRBEM_CTB", "NRBRM_FIS=NRBEM_CTB",
     "SERIE_FIS_SERIE_CTB", "TAG_FIS_TAG_CTB"}

\* The accounting children of the group key of parent a
ChildrenOf(a) ==
    {c \in DOMAIN contabil : /\ contabil[c].NRBRM # NULL
                             /\ contabil[c].NRBRM = contabil[a].NRBRM
                             /\ Coalesce(contabil[c].INC, 0) # 0}

\* C5: after a full automatic pass, every pair a key rule committed to an
\* accounting parent has each child of the parent's group key that was pending
\* before the pass committed with tag CA - INC and the parent's physical id.
C5_AutoPassAttachesChildren ==
    [][RunAutomatico01 =>
          \A r \in depara' :
              (r.ST \in AutoRuleTags /\ Coalesce(contabil[r.ID_CONTABIL].INC, 0) = 0)
              => \A c \in ChildrenOf(r.ID_CONTABIL) :
                    ~LockedIn(conciliados, "CTB", c)
                    => \E q \in depara' : /\ q.ID_CONTABIL = c
                                          /\ q.ST = "CA - INC"
                                          /\ q.ID_FISICO = r.ID_FISICO]_vars

\* The staged entries that came before the last staging interaction
Prefix == undo_last_pending(pending_pairs)

\* The buffer is what staging (P, A) with the given answer left behind
LastStaged(P, A, answer) ==
    /\ pending_pairs # <<>>
    /\ P \in df_fis
    /\ A \in DOMAIN df_ctb
    /\ pending_pairs = create_pair_rows(CurDB, df_ctb, Prefix, batch_seq, P, A, answer)

IsParent(A) ==
    /\ A \in DOMAIN contabil
    /\ Coalesce(contabil[A].INC, 0) = 0
    /\ Coalesce(contabil[A].NRBRM, 0) > 0

\* C3: the user declined the propagation prompt for (P, A) and none of A's
\* children is staged: the commit leaves every pending child of A's group key
\* pending and writes no ledger row for it.
C3_DeclinedChildrenStayPending ==
    [][SavePairs =>
          \A P \in FisIds, A \in CtbIds :
              (/\ LastStaged(P, A, FALSE)
               /\ IsParent(A)
               /\ prompt_children(CurDB, df_ctb, A) # <<>>
               /\ \A c \in ChildrenOf(A) : ctb_id_count(pending_pairs, c) = 0)
              => \A c \in Range(prompt_children(CurDB, df_ctb, A)) :
                    /\ ~LockedIn(conciliados', "CTB", c)
                    /\ \A r \in NewRows : r.ID_CONTABIL # c]_vars

\* P, parent A and every child of A's group key are pending, (P, A) was staged
\* last and the prompt was answered "attach all"
StagedWithAll(P, A) ==
    /\ LastStaged(P, A, TRUE)
    /\ IsParent(A)
    /\ ~LockedIn(conciliados, "FIS", P)
    /\ ~LockedIn(conciliados, "CTB", A)
    /\ \A c \in ChildrenOf(A) : ~LockedIn(conciliados, "CTB", c)

AllChildrenOn(P, A) ==
    \A c \in ChildrenOf(A) :
        \E r \in depara' : r.ID_FISICO = P /\ r.ID_CONTABIL = c

\* C6 as stated: P, parent A and all children pending, (P, A) staged with
\* "attach all" and committed: every child of the group key has a ledger row
\* whose physical side is P.
C6_AllChildrenCommittedWithP ==
    [][SavePairs =>
          \A P \in FisIds, A \in CtbIds :
              StagedWithAll(P, A) => AllChildrenOn(P, A)]_vars

\* C6 amended: the same, when no child of the group key was staged before
\* (P, A), under another pair.
C6_AllChildrenCommittedWithP_Amended ==
    [][SavePairs =>
          \A P \in FisIds, A \in CtbIds :
              (/\ StagedWithAll(P, A)
               /\ \A c \in ChildrenOf(A) : ctb_id_count(Prefix, c) = 0)
              => AllChildrenOn(P, A)]_vars

\* Commit the lone pair (P, A) under a tag, then undo the key (P, A)
CommitThenUndo(P, A, st) ==
    undo_pairs(save_pairs_with_family(CurDB, <<<<P, A>>>>, st), <<<<P, A>>>>)

\* C7: P and parent A are pending and (P, A) is committed with its propagated
\* children; undo_pairs([(P, A)]) then deletes every row that commit wrote and
\* the pending counts of both sides are again those of before the commit.
C7_UndoRestoresPendingCounts ==
    \A P \in DOMAIN fisico, A \in DOMAIN contabil, st \in {"MANUAL", "DIRETA"} :
        (/\ IsParent(A)
         /\ ~LockedIn(conciliados, "FIS", P)
         /\ ~LockedIn(conciliados, "CTB", A)
         /\ next_par_id(depara) + Len(save_rows(CurDB, <<<<P, A>>>>, st)) - 1 <= MaxParId)
        => /\ \A r \in save_pairs_with_family(CurDB, <<<<P, A>>>>, st).dp \ depara :
                r \notin CommitThenUndo(P, A, st).dp
           /\ PendingCounts(CommitThenUndo(P, A, st)) = get_counts

\* The group key the ledger row carries
RowKey(r) == Coalesce(r.NRBRM, 0)

\* The ledger rows a step deleted
RemovedRows == depara \ depara'

\* C8 as stated: an undo key that resolves to a ledger row whose accounting
\* record is a family parent removes every ledger row of that parent's group
\* key, whatever its physical side.
C8_UndoRemovesWholeFamily ==
    [][\A pairs \in UndoLists :
          UndoPairsOf(pairs) =>
              \A k \in undo_norm_pairs(pairs), r \in depara :
                  (r.PAR_ID \in undo_par_ids(CurDB, k) /\ IsParent(r.ID_CONTABIL))
                  => \A q \in depara :
                        RowKey(q) = contabil[r.ID_CONTABIL].NRBRM => q \in RemovedRows]_vars

\* The rows the amended claim says one key removes
FamilyRowsOfKey(k) ==
    LET P == k[1]
        A == k[2]
    IN  IF P > 0 /\ A > 0
        THEN {r \in depara : r.ID_FISICO = P /\ r.ID_CONTABIL = A}
             \cup {r \in depara : IsParent(A) /\ RowKey(r) = contabil[A].NRBRM
                                  /\ r.ID_FISICO = P}
        ELSE IF P > 0
        THEN {r \in depara : r.ID_FISICO = P}
        ELSE {r \in depara : r.ID_CONTABIL = A}
             \cup {r \in depara : IsParent(A) /\ RowKey(r) = contabil[A].NRBRM}

\* C8 amended: only an accounting-only key (0, A) with A a family parent removes
\* every ledger row of A's group key; an exact key (P, A) with A a family parent
\* removes the rows (P, A) and the rows of the group key whose physical side is
\* P; a physical-only key (P, 0) removes the rows whose physical side is P.
\* Nothing else is removed.
C8_UndoRemovesFamilyOfKey ==
    [][\A pairs \in UndoLists :
          UndoPairsOf(pairs) =>
              RemovedRows = UNION {FamilyRowsOfKey(k) : k \in undo_norm_pairs(pairs)}]_vars

LedgerPairs(dp) == {<<r.ID_FISICO, r.ID_CONTABIL>> : r \in dp}

\* A manual commit wrote a parent row and, right after it, a child row of the
\* same group key on the same physical id, and emptied the buffer
C6_Witness ==
    /\ pending_pairs = <<>>
    /\ batch_seq > 0
    /\ \E r \in depara, q \in depara :
          /\ r.ST = "MANUAL" /\ IsParent(r.ID_CONTABIL)
          /\ q.ST = "CM - INC" /\ q.ID_CONTABIL \in ChildrenOf(r.ID_CONTABIL)
          /\ q.ID_FISICO = r.ID_FISICO
          /\ q.PAR_ID = r.PAR_ID + 1

\* An undo ran in a ledger where one group key had rows on both physical ids;
\* the rows of one physical id are gone, a family row of the other one is left
C8_Witness ==
    /\ n_undo = 1
    /\ \A r \in depara : r.ID_FISICO = 2 /\ RowKey(r) = 100
    /\ \E r \in depara : Coalesce(contabil[r.ID_CONTABIL].INC, 0) # 0
    /\ \E c \in DOMAIN contabil :
          /\ IsParent(c) /\ contabil[c].NRBRM = 100
          /\ ~LockedIn(conciliados, "CTB", c)
    /\ ~LockedIn(conciliados, "FIS", 1)

EmptyDB == [dp |-> {}, cc |-> {}, ff |-> {}, fc |-> {}]

NextDB == [dp |-> depara', cc |-> conciliados', ff |-> fragF', fc |-> fragC']

\* The scenario's tables have just been imported: 2 physical and 3 accounting
\* records are pending
ScenarioImported ==
    /\ fisico = DataSets[1].fisico
    /\ contabil = DataSets[1].contabil
    /\ CurDB = EmptyDB
    /\ get_counts = [fis |-> 2, ctb |-> 3]

\* What the group-key equality rule followed by the propagation pass leaves
RuleThenPropagation == run_propagacao_incorporados(run_regra_nrbrm_pai(CurDB))

\* C9 as stated: in the scenario the rule followed by the propagation pass
\* yields exactly (P1, A1) and (P1, A2); one physical and one accounting record
\* stay pending.
C9_ScenarioTwoPairs ==
    ScenarioImported
    => /\ LedgerPairs(RuleThenPropagation.dp) = {<<1, 1>>, <<1, 2>>}
       /\ PendingCounts(RuleThenPropagation) = [fis |-> 1, ctb |-> 1]

\* C9 amended: the rule also pairs P2 with A3 (group key 200), so the result is
\* exactly (P1, A1), (P2, A3) and (P1, A2) and nothing stays pending.
C9_ScenarioThreePairs ==
    ScenarioImported
    => /\ LedgerPairs(RuleThenPropagation.dp) = {<<1, 1>>, <<2, 3>>, <<1, 2>>}
       /\ Cardinality(RuleThenPropagation.dp) = 3
       /\ PendingCounts(RuleThenPropagation) = [fis |-> 0, ctb |-> 0]

\* The scenario after the rule and the propagation pass, nothing undone
C9_Witness ==
    /\ fisico = DataSets[1].fisico
    /\ contabil = DataSets[1].contabil
    /\ n_undo = 0
    /\ CurDB = run_propagacao_incorporados(run_regra_nrbrm_pai(EmptyDB))
    /\ \E r \in depara : r.ST = "CA - INC"

\* C10: a rule, the propagation pass or the full automatic pass that has just
\* run commits nothing when run again at once: ledger and lock table stay as
\* they are.
C10_SecondRunCommitsNothing ==
    [][/\ RunRegraNrbrmPai => run_regra_nrbrm_pai(NextDB) = NextDB
       /\ RunRegraBemAntFis => run_regra_bem_ant_fis_eq_nrbrm_ctb(NextDB) = NextDB
       /\ RunRegraBemAntCtb => run_regra_nrbrm_fis_eq_bem_ant_ctb(NextDB) = NextDB
       /\ RunRegraExataSerie
            => run_regra_exata(NextDB, "SERIE", "SERIE_FIS_SERIE_CTB") = NextDB
       /\ RunRegraExataTag
            => run_regra_exata(NextDB, "TAG", "TAG_FIS_TAG_CTB") = NextDB
       /\ RunPropagacaoIncorporados => run_propagacao_incorporados(NextDB) = NextDB
       /\ RunAutomatico01 => run_automatico_01(NextDB) = NextDB]_vars

\* A rule has committed a pair and records of both sides are still pending, so
\* a second run has candidates to look at
C10_Witness ==
    /\ n_undo = 0
    /\ \E r \in depara : r.ST \in AutoRuleTags
    /\ read_pending(CurDB, "FIS") # {}
    /\ read_pending(CurDB, "CTB") # {}
    /\ run_automatico_01(CurDB) = CurDB

\* The ledger rows a commit of the list wrote for the pairs of the list
RowsOfPair(old, new, pair) ==
    {r \in new.dp \ old.dp : r.ID_FISICO = pair[1] /\ r.ID_CONTABIL = pair[2]}

\* Two pairs of the list name the same non-zero id on side k (1 physical,
\* 2 accounting); at most one of the two gets a ledger row
DuplicateRejected(old, new, pairs, k) ==
    \A i, j \in DOMAIN pairs :
        (i < j /\ pairs[i][k] > 0 /\ pairs[i][k] = pairs[j][k] /\ pairs[i] # pairs[j])
        => (RowsOfPair(old, new, pairs[i]) = {} \/ RowsOfPair(old, new, pairs[j]) = {})

\* C11: two pairs of one commit batch name the same non-zero physical id or the
\* same non-zero accounting id: save_pairs and save_pairs_with_family write a
\* ledger row for at most one of them.
C11_DuplicateInBatchRejected ==
    \A pairs \in CommitLists, k \in {1, 2} :
        /\ DuplicateRejected(CurDB, save_manual_pairs(CurDB, pairs), pairs, k)
        /\ DuplicateRejected(CurDB, save_pairs(CurDB, pairs, "MANUAL"), pairs, k)

\* C11, the part the code keeps: save_pairs_with_family writes one row for an
\* accounting id named twice
C11_DuplicateAccountingRejected ==
    \A pairs \in CommitLists :
        DuplicateRejected(CurDB, save_manual_pairs(CurDB, pairs), pairs, 2)

\* A non-zero side of the pair has a lock row
HasLockedSide(cc, pair) ==
    \/ (pair[1] > 0 /\ LockedIn(cc, "FIS", pair[1]))
    \/ (pair[2] > 0 /\ LockedIn(cc, "CTB", pair[2]))

\* Both records a pair names exist; a side may be 0, not both
WellFormed(pair) ==
    /\ pair # <<0, 0>>
    /\ pair[1] > 0 => pair[1] \in DOMAIN fisico
    /\ pair[2] > 0 => pair[2] \in DOMAIN contabil

\* Pair j of the list conflicts with nothing: it is well formed, no side is
\* locked and no earlier pair of the list names one of its ids
NonConflicting(cc, pairs, j) ==
    /\ WellFormed(pairs[j])
    /\ ~HasLockedSide(cc, pairs[j])
    /\ \A i \in 1..(j - 1), k \in {1, 2} : pairs[j][k] > 0 => pairs[i][k] # pairs[j][k]

\* The lock rows a commit wrote
NewLocks(old, new) == new.cc \ old.cc

LockedPairSkipped(old, new, pairs) ==
    \A j \in DOMAIN pairs :
        /\ HasLockedSide(old.cc, pairs[j])
           => /\ RowsOfPair(old, new, pairs[j]) = {}
              /\ \A l \in NewLocks(old, new) :
                    /\ (LockedIn(old.cc, "FIS", pairs[j][1]) /\ l.BASE = "FIS")
                       => l.ID # pairs[j][1]
                    /\ (LockedIn(old.cc, "CTB", pairs[j][2]) /\ l.BASE = "CTB")
                       => l.ID # pairs[j][2]
        /\ NonConflicting(old.cc, pairs, j) => RowsOfPair(old, new, pairs[j]) # {}

\* C12: in a commit batch a pair with a locked non-zero side gets no ledger
\* row, its locked id gets no new lock row, and every pair of the batch that
\* conflicts with nothing is committed (the functions return, they do not
\* raise).
C12_LockedPairSkippedBatchContinues ==
    \A pairs \in CommitLists :
        /\ LockedPairSkipped(CurDB, save_manual_pairs(CurDB, pairs), pairs)
        /\ LockedPairSkipped(CurDB, save_pairs(CurDB, pairs, "MANUAL"), pairs)

\* A commit has locked an id, and a batch of a pair on that id followed by a
\* pair that conflicts with nothing commits the second pair alone
C12_Witness ==
    /\ depara # {}
    /\ \E pairs \in CommitLists :
          /\ Len(pairs) = 2
          /\ HasLockedSide(conciliados, pairs[1])
          /\ NonConflicting(conciliados, pairs, 2)
          /\ pairs[1][1] > 0 /\ pairs[1][2] > 0
          /\ ~LockedIn(conciliados, "CTB", pairs[1][2])
          /\ LedgerPairs(save_pairs(CurDB, pairs, "MANUAL").dp \ depara) = {pairs[2]}

MalformedNotWritten(old, new, pairs) ==
    \A j \in DOMAIN pairs :
        /\ ~WellFormed(pairs[j])
           => /\ RowsOfPair(old, new, pairs[j]) = {}
              /\ \A l \in NewLocks(old, new) :
                    /\ (l.BASE = "FIS" /\ pairs[j][1] \notin DOMAIN fisico)
                       => l.ID # pairs[j][1]
                    /\ (l.BASE = "CTB" /\ pairs[j][2] \notin DOMAIN contabil)
                       => l.ID # pairs[j][2]
        /\ NonConflicting(old.cc, pairs, j) => RowsOfPair(old, new, pairs[j]) # {}

\* C13: a pair of a commit batch whose sides are both zero, or that names a
\* physical or an accounting record that does not exist, gets no ledger row and
\* no lock row, and the pairs of the batch that conflict with nothing are
\* committed all the same.
C13_MalformedPairNeverWritten ==
    \A pairs \in CommitLists :
        /\ MalformedNotWritten(CurDB, save_manual_pairs(CurDB, pairs), pairs)
        /\ MalformedNotWritten(CurDB, save_pairs(CurDB, pairs, "MANUAL"), pairs)

\* C13, the part the code keeps: the pair (0, 0), a pair whose accounting id
\* names no record, and a physical-only pair whose physical id names no record
\* are not written
C13_AbsentAccountingNeverWritten ==
    \A pairs \in CommitLists, j \in 1..MaxPairs :
        (/\ j \in DOMAIN pairs
         /\ \/ pairs[j] = <<0, 0>>
            \/ (pairs[j][2] > 0 /\ pairs[j][2] \notin DOMAIN contabil)
            \/ (pairs[j][2] = 0 /\ pairs[j][1] \notin DOMAIN fisico))
        => /\ RowsOfPair(CurDB, save_manual_pairs(CurDB, pairs), pairs[j]) = {}
           /\ RowsOfPair(CurDB, save_pairs(CurDB, pairs, "MANUAL"), pairs[j]) = {}

\* The failing call left partial writes behind before the rollback
PartialWrites ==
    \/ \E pairs \in DirectLists :
          \E fault \in 2..(Len(save_writes(CurDB, pairs, "DIRETA")) + 1) :
              apply_writes(CurDB, save_writes(CurDB, pairs, "DIRETA"), fault - 1) # CurDB
    \/ \E pairs \in UndoLists, fault \in 2..7 : undo_steps(CurDB, pairs)[fault] # CurDB

\* C14: a storage failure inside a commit or an undo leaves ledger and lock
\* table (and the FRAG marks) as they were before the call and the exception
\* reaches the caller.
C14_FailedCallChangesNothing ==
    [][(SaveDirectFails \/ UndoFails)
       => /\ depara' = depara
          /\ conciliados' = conciliados
          /\ fragF' = fragF /\ fragC' = fragC
          /\ raised']_vars

\* A call has failed in a state where it had written or deleted rows before
\* the failure
C14_Witness == raised /\ depara # {} /\ PartialWrites

\* C15: a row written by a commit gets a pair id greater than every pair id
\* allocated before, also when rows allocated before were removed by an undo
\* in between.
C15_PairIdsNeverReused ==
    \A undone \in UndoLists, pairs \in DirectLists :
        LET after_undo   == undo_pairs(CurDB, undone)
            after_commit == save_direct_pairs(after_undo, pairs)
        IN  \A r \in after_commit.dp \ after_undo.dp :
                \A q \in depara : r.PAR_ID > q.PAR_ID

\* Supporting: a written row's pair id exceeds every pair id in the ledger at
\* the time of the commit.
C15_NewIdsExceedPresentIds ==
    \A pairs \in DirectLists :
        \A r \in save_direct_pairs(CurDB, pairs).dp \ depara :
            \A q \in depara : r.PAR_ID > q.PAR_ID

\* C16: the lock table never holds two rows for the same (side, record id),
\* whatever commits, automatic passes and undos have run.
C16_OneLockRowPerRecord ==
    \A c1, c2 \in conciliados :
        (c1.BASE = c2.BASE /\ c1.ID = c2.ID) => c1 = c2

\* C17: a ledger row tagged NÃO CHAPEÁVEL has exactly one of its two sides
\* non-zero, after any sequence of De-Para imports and commits.
C17_NotMatchableHasOneSide ==
    \A r \in depara :
        r.ST = "NÃO CHAPEÁVEL" => ((r.ID_FISICO > 0) # (r.ID_CONTABIL > 0))

\* A NÃO CHAPEÁVEL row stands in the ledger next to a both-sided row
C17_Witness ==
    /\ \E r \in depara : r.ST = "NÃO CHAPEÁVEL" /\ r.ID_FISICO = 0
    /\ \E r \in depara : r.ST = "NÃO CHAPEÁVEL" /\ r.ID_CONTABIL = 0
    /\ \E r \in depara : r.ID_FISICO > 0 /\ r.ID_CONTABIL > 0

\* Every (physical, accounting) selection the two grids offer
Selections == df_fis \X DOMAIN df_ctb

\* C18: no staged entry names a locked id, and no physical id and no accounting
\* id is named by two different staged entries, parent or child.
C18_StagedIdsUnlockedAndUnique ==
    \A i, j \in 1..Len(pending_pairs) :
        /\ ~LockedIn(conciliados, "FIS", pending_pairs[i].fis_id)
        /\ ~LockedIn(conciliados, "CTB", pending_pairs[i].ctb_id)
        /\ i # j => /\ pending_pairs[i].fis_id # pending_pairs[j].fis_id
                    /\ pending_pairs[i].ctb_id # pending_pairs[j].ctb_id

\* Supporting: no accounting id is named by two staged entries, and no
\* physical id by two entries of different batches.
C18_AccountingIdStagedOnce ==
    \A i, j \in 1..Len(pending_pairs) :
        i # j => /\ pending_pairs[i].ctb_id # pending_pairs[j].ctb_id
                 /\ (pending_pairs[i].fis_id = pending_pairs[j].fis_id
                       => pending_pairs[i].batch = pending_pairs[j].batch)

\* Supporting: no staged entry names a locked id.
C18_NoStagedIdLocked ==
    \A i \in 1..Len(pending_pairs) :
        /\ ~LockedIn(conciliados, "FIS", pending_pairs[i].fis_id)
        /\ ~LockedIn(conciliados, "CTB", pending_pairs[i].ctb_id)

\* C19: staging (p, a) while p is staged is refused as duplicate physical,
\* while a is staged (and p is not) as duplicate accounting; either way no
\* entry is added, no batch id is consumed and the buffer is unchanged.
C19_DuplicateStagingRefused ==
    \A sel \in Selections, answer \in BOOLEAN :
        LET out == create_pair(CurDB, df_ctb, pending_pairs, batch_seq,
                               sel[1], sel[2], answer)
            dup_f == \E k \in 1..Len(pending_pairs) : pending_pairs[k].fis_id = sel[1]
            dup_c == \E k \in 1..Len(pending_pairs) : pending_pairs[k].ctb_id = sel[2]
        IN  /\ dup_f => out.log = "fis"
            /\ (dup_c /\ ~dup_f) => out.log = "ctb"
            /\ (dup_f \/ dup_c) => /\ ~out.created
                                   /\ out.pending_pairs = pending_pairs
                                   /\ out.batch_seq = batch_seq

\* The grids offer a selection whose physical id is staged, and one whose
\* accounting id is staged while its physical id is not
C19_Witness ==
    /\ \E sel \in Selections : fis_id_count(pending_pairs, sel[1]) > 0
    /\ \E sel \in Selections : /\ fis_id_count(pending_pairs, sel[1]) = 0
                               /\ ctb_id_count(pending_pairs, sel[2]) > 0

\* The batch _undo_last_pending takes away
LastBatch == Max({pending_pairs[k].batch : k \in 1..Len(pending_pairs)})

\* C20: _undo_last_pending removes exactly the entries of the highest batch id
\* in the buffer and keeps the others in their order; the ids it removed can be
\* staged again; and undoing right after a staging gives the buffer back.
C20_UndoLastBatch ==
    LET pp   == pending_pairs
        left == undo_last_pending(pp)
        kept == {k \in 1..Len(pp) : pp[k].batch # LastBatch}
    IN  /\ pp # <<>> =>
            /\ Len(left) = Cardinality(kept)
            /\ \A k \in kept : \E i \in 1..Len(left) : left[i] = pp[k]
            /\ \A i, j \in 1..Len(left) :
                  i < j => \E a, b \in kept : a < b /\ pp[a] = left[i] /\ pp[b] = left[j]
            /\ \A k \in (1..Len(pp)) \ kept :
                  /\ fis_id_count(left, pp[k].fis_id) = 0
                  /\ ctb_id_count(left, pp[k].ctb_id) = 0
                  /\ <<pp[k].fis_id, pp[k].ctb_id>> \in Selections
                        => \A answer \in BOOLEAN :
                              create_pair(CurDB, df_ctb, left, batch_seq,
                                          pp[k].fis_id, pp[k].ctb_id, answer).created
        /\ \A sel \in Selections, answer \in BOOLEAN :
              LET out == create_pair(CurDB, df_ctb, pp, batch_seq, sel[1], sel[2], answer)
              IN  out.created => undo_last_pending(out.pending_pairs) = pp

\* Two batches are staged and the later one holds a parent and a child entry
C20_Witness ==
    /\ Len(pending_pairs) >= 3
    /\ pending_pairs[1].batch < LastBatch
    /\ \E k \in 1..Len(pending_pairs) :
          pending_pairs[k].batch = LastBatch /\ pending_pairs[k].role = "PAI"
    /\ \E k \in 1..Len(pending_pairs) :
          pending_pairs[k].batch = LastBatch /\ pending_pairs[k].role = "FILHO"

C22_ImportClearsLedgerLocksAndStaging ==
    [][Import(ManualSets)
       => /\ depara' = {}
          /\ conciliados' = {}
          /\ pending_pairs' = <<>>]_vars

\* Supporting: the import leaves no ledger row and no lock row, so every
\* imported record is pending.
C22_ImportClearsLedgerAndLocks ==
    [][Import(ManualSets)
       => /\ depara' = {}
          /\ conciliados' = {}
          /\ fragF' = {} /\ fragC' = {}]_vars

\* The ledger after each rule of a pass that starts from db, in the order
\* group key, previous-asset = group key, group key = previous-asset, serial,
\* tag, propagation
PassStages(db) ==
    LET d1 == run_regra_nrbrm_pai(db)
        d2 == run_regra_bem_ant_fis_eq_nrbrm_ctb(d1)
        d3 == run_regra_nrbrm_fis_eq_bem_ant_ctb(d2)
        d4 == run_regra_exata(d3, "SERIE", "SERIE_FIS_SERIE_CTB")
        d5 == run_regra_exata(d4, "TAG", "TAG_FIS_TAG_CTB")
        d6 == run_propagacao_incorporados(d5)
    IN  <<db, d1, d2, d3, d4, d5, d6>>

\* Rule k of the pass pairs no record that was locked when it started
StageTakesPendingOnly(st, k, both_sides) ==
    \A r \in st[k + 1].dp \ st[k].dp :
        /\ ~LockedIn(st[k].cc, "CTB", r.ID_CONTABIL)
        /\ both_sides => ~LockedIn(st[k].cc, "FIS", r.ID_FISICO)

C25_LocksAgreeWithLedger ==
    /\ \A r \in depara :
          /\ r.ID_FISICO > 0 => LockedIn(conciliados, "FIS", r.ID_FISICO)
          /\ r.ID_CONTABIL > 0 => LockedIn(conciliados, "CTB", r.ID_CONTABIL)
    /\ \A c \in conciliados :
          \E r \in depara : IF c.BASE = "FIS" THEN r.ID_FISICO = c.ID
                                              ELSE r.ID_CONTABIL = c.ID

\* Supporting: no lock row is left without a ledger row of its pair id, and
\* the agreement holds as long as no undo has run.
C25_LocksAgreeBeforeAnyUndo ==
    /\ \A c \in conciliados : \E r \in depara : r.PAR_ID = c.PAR_ID
    /\ n_undo = 0 => C25_LocksAgreeWithLedger

\* C26: when a manual commit completes between an automatic rule's read of
\* the pending sets and its write, the write still gives no id a second
\* ledger row: no row it writes names an id that a ledger row already names.
C26_StaleRuleWriteAddsNoSecondRow ==
    [][RuleBulkInsert
       => \A r \in depara' \ depara : \A q \in depara :
              /\ r.ID_FISICO # q.ID_FISICO
              /\ r.ID_CONTABIL # q.ID_CONTABIL]_vars

\* Supporting: a rule whose read and write are not separated by a commit
\* writes no row for an id that a ledger row already names.
C26_UninterruptedRuleAddsNoSecondRow ==
    [][(RuleBulkInsert /\ rule_pairs = <<pairs_regra_nrbrm_pai(CurDB)>>)
       => \A r \in depara' \ depara : \A q \in depara :
              /\ r.ID_FISICO # q.ID_FISICO
              /\ r.ID_CONTABIL # q.ID_CONTABIL]_vars

\* The tag a new row must carry under the commit origin st
ExpectedTag(r, st) ==
    IF r.ID_CONTABIL > 0 /\ Coalesce(contabil[r.ID_CONTABIL].INC, 0) # 0
    THEN CASE st = "MANUAL"        -> "CM - INC"
           [] st = "DIRETA"        -> "CD - INC"
           [] st = "NÃO CHAPEÁVEL" -> "CN - INC"
    ELSE st

\* C27: every row written by save_pairs_with_family whose accounting record
\* has INC # 0 carries the child tag of the commit's origin (CM - INC for
\* MANUAL, CD - INC for DIRETA, CN - INC for NÃO CHAPEÁVEL); every row whose
\* accounting record has INC = 0, or that has no accounting side, carries the
\* origin tag itself.
C27_RowsCarryOriginOrChildTag ==
    /\ \A pairs \in ManualLists :
          \A r \in save_manual_pairs(CurDB, pairs).dp \ depara :
              r.ST = ExpectedTag(r, "MANUAL")
    /\ \A pairs \in DirectLists :
          \A r \in save_direct_pairs(CurDB, pairs).dp \ depara :
              r.ST = ExpectedTag(r, "DIRETA")
    /\ \A pairs \in NcLists :
          \A r \in save_nao_chapeavel_pairs(CurDB, pairs).dp \ depara :
              r.ST = ExpectedTag(r, "NÃO CHAPEÁVEL")

\* A direct commit has written a parent row and a child row, and a
\* not-matchable commit a row without accounting side
C27_Witness ==
    /\ \E r \in depara : r.ST = "DIRETA" /\ contabil[r.ID_CONTABIL].INC = 0
    /\ \E r \in depara : r.ST = "CD - INC" /\ contabil[r.ID_CONTABIL].INC # 0
    /\ \E r \in depara : r.ST = "NÃO CHAPEÁVEL" /\ r.ID_CONTABIL = 0

\* The candidates and keys of the group-key rule and of the exact tag rule
KeyRules ==
    LET nF == [i \in DOMAIN fisico   |-> fisico[i].NRBRM]
        nC == [i \in DOMAIN contabil |-> contabil[i].NRBRM]
        tF == [i \in DOMAIN fisico   |-> Strip(fisico[i].TAG)]
        tC == [i \in DOMAIN contabil |-> Strip(contabil[i].TAG)]
    IN  <<[pairs |-> pairs_regra_nrbrm_pai(CurDB), keyF |-> nF, keyC |-> nC,
          F |-> {i \in read_pending(CurDB, "FIS") : nF[i] # NULL},
          C |-> {i \in read_pending(CurDB, "CTB") :
                    nC[i] # NULL /\ Coalesce(contabil[i].INC, 0) = 0}],
         [pairs |-> pairs_regra_exata(CurDB, "TAG"), keyF |-> tF, keyC |-> tC,
          F |-> {i \in read_pending(CurDB, "FIS") : tF[i] # ""},
          C |-> {i \in read_pending(CurDB, "CTB") :
                    tC[i] # "" /\ Coalesce(contabil[i].INC, 0) = 0}]>>

MinOf(a, b) == IF a <= b THEN a ELSE b

\* A group with m physical and n accounting records yields min(m, n) pairs,
\* and no pair joins records with different key values
GroupsPairedInFull(k) ==
    /\ \A i \in DOMAIN k.pairs :
          k.keyF[k.pairs[i].ID_FISICO] = k.keyC[k.pairs[i].ID_CONTABIL]
    /\ \A f \in k.F :
          Cardinality({i \in DOMAIN k.pairs :
                          k.keyF[k.pairs[i].ID_FISICO] = k.keyF[f]})
            = MinOf(Cardinality({g \in k.F : k.keyF[g] = k.keyF[f]}),
                    Cardinality({c \in k.C : k.keyC[c] = k.keyF[f]}))

\* The position of record i among the records of S that share its key, by
\* the order of the rows in the table
RowRank(S, table, key, i) ==
    Cardinality({j \in S : key[j] = key[i] /\ table[j].row_id < table[i].row_id}) + 1

\* The position of record i among the records of S that share its key, by ID
IdRank(S, key, i) == Cardinality({j \in S : key[j] = key[i] /\ j < i}) + 1

\* C29: within each group of records sharing the key value both sides are
\* ranked by first-appearance order and equal ranks are paired: a group with
\* m physical and n accounting records yields exactly min(m, n) pairs, the
\* i-th physical with the i-th accounting, and no pair joins different keys.
C29_EqualAppearanceRanksPaired ==
    \A n \in DOMAIN KeyRules : LET k == KeyRules[n] IN
        /\ GroupsPairedInFull(k)
        /\ \A i \in DOMAIN k.pairs :
              RowRank(k.F, fisico, k.keyF, k.pairs[i].ID_FISICO)
                = RowRank(k.C, contabil, k.keyC, k.pairs[i].ID_CONTABIL)

\* C29, amended: the rank inside a group is the rank of the record's ID; a
\* group with m physical and n accounting records yields exactly min(m, n)
\* pairs, the physical record with the i-th smallest ID with the accounting
\* record with the i-th smallest ID, and no pair joins different keys.
C29_EqualIdRanksPaired ==
    \A n \in DOMAIN KeyRules : LET k == KeyRules[n] IN
        /\ GroupsPairedInFull(k)
        /\ \A i \in DOMAIN k.pairs :
              IdRank(k.F, k.keyF, k.pairs[i].ID_FISICO)
                = IdRank(k.C, k.keyC, k.pairs[i].ID_CONTABIL)

\* The group-key rule has paired a group of two physical and two accounting
\* records whose physical rows are not in the order of their ids
C29_Witness ==
    /\ fisico # <<>>
    /\ fisico[1].row_id = 2
    /\ \E r, q \in depara :
          /\ r.ST = "NRBEM_FIS=NRBEM_CTB" /\ q.ST = "NRBEM_FIS=NRBEM_CTB"
          /\ r.ID_FISICO = 1 /\ r.ID_CONTABIL = 1
          /\ q.ID_FISICO = 2 /\ q.ID_CONTABIL = 2

\* A serial or tag without its blanks and in upper case
NormKey(s) ==
    CASE s = "sn1"  -> "SN1"
      [] s = "TG 1" -> "TG1"
      [] OTHER      -> Strip(s)

\* The pairs of an exact rule when the values are compared after NormKey
PairsOnNormKey(key) ==
    LET kF == [i \in DOMAIN fisico   |-> NormKey(fisico[i][key])]
        kC == [i \in DOMAIN contabil |-> NormKey(contabil[i][key])]
        F  == {i \in read_pending(CurDB, "FIS") : kF[i] # ""}
        C  == {i \in read_pending(CurDB, "CTB") :
                  kC[i] # "" /\ Coalesce(contabil[i].INC, 0) = 0}
    IN  {<<f, c>> \in F \X C :
            /\ kF[f] = kC[c]
            /\ Cardinality({g \in F : kF[g] = kF[f] /\ g < f})
                 = Cardinality({d \in C : kC[d] = kC[c] /\ d < c})}

PairsOf(pairs) == {<<pairs[i].ID_FISICO, pairs[i].ID_CONTABIL>> : i \in DOMAIN pairs}

PairSeq(pairs) == [i \in DOMAIN pairs |-> <<pairs[i].ID_FISICO, pairs[i].ID_CONTABIL>>]

\* C28: the exact serial and exact tag rules pair a pending physical record
\* with a pending accounting record only when the accounting record is a
\* parent (INC = 0) and both values are non-empty, and they compare the
\* normalized values: two values that differ only in letter case or in
\* surrounding or inner blanks are matched.
C28_ExactRulesCompareNormalized ==
    /\ PairsOf(pairs_regra_exata(CurDB, "SERIE")) = PairsOnNormKey("SERIE")
    /\ PairsOf(pairs_regra_exata(CurDB, "TAG")) = PairsOnNormKey("TAG")

\* Supporting: the exact rules pair pending records only, the accounting one
\* a parent, both values non-empty and equal after str.strip()
C28_ExactRulesPairParentsOnEqualValues ==
    \A key \in {"SERIE", "TAG"} :
        \A p \in PairsOf(pairs_regra_exata(CurDB, key)) :
            /\ p[1] \in read_pending(CurDB, "FIS")
            /\ p[2] \in read_pending(CurDB, "CTB")
            /\ Coalesce(contabil[p[2]].INC, 0) = 0
            /\ Strip(fisico[p[1]][key]) # ""
            /\ Strip(fisico[p[1]][key]) = Strip(contabil[p[2]][key])

\* The pair lists of the allocators in the current state: the five key rules
\* as pairs <<physical id, accounting id>>, and the assisted rules under
\* every iteration order
KeyRulePairLists ==
    {PairSeq(pairs_regra_nrbrm_pai(CurDB)),
     PairSeq(pairs_regra_bem_ant_fis_eq_nrbrm_ctb(CurDB)),
     PairSeq(pairs_regra_nrbrm_fis_eq_bem_ant_ctb(CurDB)),
     PairSeq(pairs_regra_exata(CurDB, "SERIE")),
     PairSeq(pairs_regra_exata(CurDB, "TAG"))}

Auto02PairLists ==
    {load_pairs_auto02(CurDB, rid, iters) : rid \in Auto02Rules, iters \in IterOrders}

\* C24: in the pair list of one allocator invocation (_pair_1to1_by_value for
\* the key rules, load_pairs_auto02 for the containment and similarity rules)
\* each physical id occurs at most once and each accounting id occurs at most
\* once; an empty pending set on either side yields zero pairs.
C24_AllocatorUsesEachIdOnce ==
    \A ps \in KeyRulePairLists \cup Auto02PairLists :
        /\ \A i, j \in DOMAIN ps :
              i # j => ps[i][1] # ps[j][1] /\ ps[i][2] # ps[j][2]
        /\ (read_pending(CurDB, "FIS") = {} \/ read_pending(CurDB, "CTB") = {})
              => ps = <<>>

\* The assisted rules have staged two pairs, and a rule has more candidate
\* pairs than it returns
C24_Witness ==
    /\ Len(pending_pairs) = 2
    /\ pending_pairs[1].fis_id # pending_pairs[2].fis_id
    /\ pending_pairs[1].ctb_id # pending_pairs[2].ctb_id
    /\ \E rid \in 1..5 :
          Cardinality({<<f, c>> \in pend_fis(CurDB) \X pend_ctb_inc0(CurDB) :
                          join_cond(rid, fisico[f], contabil[c])}) > 2

\* The similarity pairing as the tie rule "first-seen order of the accounting
\* candidates" gives it: each physical record of df_f in order takes, among
\* the candidates of df_c not used yet that share 2 signatures or more, the
\* one sharing the most, the earliest in df_c among equals
RECURSIVE SimilarityByCandidateOrder(_, _, _)
SimilarityByCandidateOrder(df_f, df_c, used) ==
    IF df_f = <<>> THEN <<>>
    ELSE LET fid == Head(df_f)
             ok  == {k \in DOMAIN df_c :
                        /\ df_c[k] \notin used
                        /\ shared_attrs(fid, df_c[k]) >= 2
                        /\ \A j \in DOMAIN df_c :
                              df_c[j] \notin used
                                => shared_attrs(fid, df_c[j]) <= shared_attrs(fid, df_c[k])}
         IN  IF ok = {} THEN SimilarityByCandidateOrder(Tail(df_f), df_c, used)
             ELSE <<<<fid, df_c[Min(ok)]>>>>
                  \o SimilarityByCandidateOrder(Tail(df_f), df_c, used \cup {df_c[Min(ok)]})

\* C30: the similarity rule processes the physical records in order and
\* pairs each with the not-yet-used accounting candidate that shares the most
\* signatures with it, at least 2; ties are broken by first-seen order of the
\* accounting candidates, the chosen id is removed from further consideration,
\* and a physical record with no such candidate gets no pair.
C30_SimilarityTiesByCandidateOrder ==
    \A iters \in IterOrders :
        LET frames == load_candidates_auto02(CurDB, 6)
        IN  load_pairs_auto02(CurDB, 6, iters)
              = SimilarityByCandidateOrder(frames.df_f, frames.df_c, {})

\* Supporting: whatever the iteration order, every pair of the similarity rule
\* joins a physical record with a candidate not chosen before that shares 2
\* signatures or more, and no candidate not chosen before shares more
C30_SimilarityTakesABestUnused ==
    \A iters \in IterOrders :
        LET ps == load_pairs_auto02(CurDB, 6, iters)
            df_c == load_candidates_auto02(CurDB, 6).df_c
        IN  \A k \in DOMAIN ps :
                LET used == {ps[j][2] : j \in 1..(k - 1)}
                IN  /\ ps[k][2] \notin used
                    /\ shared_attrs(ps[k][1], ps[k][2]) >= 2
                    /\ \A c \in Range(df_c) \ used :
                          shared_attrs(ps[k][1], c) <= shared_attrs(ps[k][1], ps[k][2])

====
